---- MODULE Spec2Model ----
(***************************************************************************)
(* Model of the media forwarding core of livekit-server:                   *)
(*   - RTPStats (pkg/sfu/buffer/rtpstats.go): packet accounting, snapshot  *)
(*     deltas, sender report anchoring;                                    *)
(*   - Forwarder (pkg/sfu/forwarder_test.go pins its behaviour).           *)
(*                                                                         *)
(* Integer widths are scaled down so that wrap-around is reachable: a Go   *)
(* uint16 is a residue modulo NumSequenceNumbers (2^4 instead of 2^16) and *)
(* a Go uint32 a residue modulo Uint32Range (2^8 instead of 2^32).  Every  *)
(* constant that the source derives from the 16 bit sequence number space  *)
(* (1<<15, SnInfoSize) is scaled with it and keeps its relation to it.     *)
(***************************************************************************)
EXTENDS Integers, Sequences, FiniteSets, TLC

\* ------------------------------------------------------------------------
\* Program constants (rtpstats.go:19-25), scaled.
\* ------------------------------------------------------------------------
NumSequenceNumbers == 16
SnInfoSize == 4
FirstSnapshotId == 1
GapHistogramNumBins == 3

SnInfoMask == SnInfoSize - 1
\* 1 << 15: half of the uint16 range
HalfRange == NumSequenceNumbers \div 2
\* range of a uint32: the square of the range of a uint16
Uint32Range == NumSequenceNumbers * NumSequenceNumbers

\* range of a uint8, at its real width
Uint8Range == 256

U8(x) == x % Uint8Range
U16(x) == x % NumSequenceNumbers
U32(x) == x % Uint32Range
\* int32(x) of a uint32 x
I32(x) == IF U32(x) >= Uint32Range \div 2 THEN U32(x) - Uint32Range ELSE U32(x)

\* ------------------------------------------------------------------------
\* Bounds of the model.
\* ------------------------------------------------------------------------
\* number of operations on one RTPStats in the sequence-number specification
MaxPackets == 4

\* ------------------------------------------------------------------------
\* float64 jitter, kept exactly: the value n / 16^k
\* ------------------------------------------------------------------------
RECURSIVE Pow16(_)
Pow16(k) == IF k = 0 THEN 1 ELSE 16 * Pow16(k - 1)

JitterZero == [n |-> 0, k |-> 0]
JitterOfInt(i) == [n |-> i, k |-> 0]
\* a > b
JitterGreater(a, b) ==
    IF a.k >= b.k THEN a.n > b.n * Pow16(a.k - b.k)
                  ELSE a.n * Pow16(b.k - a.k) > b.n
\* r.jitter += (float64(d) - r.jitter) / 16
JitterFilter(j, d) ==
    LET n == 15 * j.n + d * Pow16(j.k)
    IN  IF n = 0 THEN JitterZero ELSE [n |-> n, k |-> j.k + 1]

\* ------------------------------------------------------------------------
\* RTPStats
\* ------------------------------------------------------------------------
ZeroSnInfo ==
    [hdrSize |-> 0, pktSize |-> 0, isPaddingOnly |-> FALSE, marker |-> FALSE,
     isOutOfOrder |-> FALSE]

ZeroSnapshot ==
    [startTime |-> 0, extStartSN |-> 0, extStartSNOverridden |-> 0,
     packetsDuplicate |-> 0, bytesDuplicate |-> 0, headerBytesDuplicate |-> 0,
     packetsLostOverridden |-> 0, nacks |-> 0, plis |-> 0, firs |-> 0,
     maxRtt |-> 0, maxJitter |-> JitterZero, maxJitterOverridden |-> JitterZero]

NoSenderReport == [present |-> FALSE]

\* the fields of rtcp.ReceptionReport the statistics read
ZeroReceptionReport == [LastSequenceNumber |-> 0, TotalLost |-> 0, Jitter |-> 0]

\* Time is a counter of clock ticks; the zero time.Time is 0.
NewRTPStats ==
    [params |-> [IsReceiverReportDriven |-> FALSE],
     initialized |-> FALSE, resyncOnNextPacket |-> FALSE,
     startTime |-> 0, endTime |-> 0,
     extStartSN |-> 0, highestSN |-> 0, cycles |-> 0,
     extHighestSNOverridden |-> 0, lastRRTime |-> 0,
     lastRR |-> ZeroReceptionReport,
     extStartTS |-> 0, highestTS |-> 0, tsCycles |-> 0,
     firstTime |-> 0, highestTime |-> 0,
     lastTransit |-> 0, lastJitterRTP |-> 0,
     bytes |-> 0, headerBytes |-> 0,
     bytesDuplicate |-> 0, headerBytesDuplicate |-> 0,
     bytesPadding |-> 0, headerBytesPadding |-> 0,
     packetsDuplicate |-> 0, packetsPadding |-> 0,
     packetsOutOfOrder |-> 0,
     packetsLost |-> 0, packetsLostOverridden |-> 0,
     frames |-> 0,
     jitter |-> JitterZero, maxJitter |-> JitterZero,
     jitterOverridden |-> JitterZero, maxJitterOverridden |-> JitterZero,
     snInfos |-> [i \in 0..(SnInfoSize - 1) |-> ZeroSnInfo],
     snInfoWritePtr |-> 0,
     gapHistogram |-> [i \in 0..(GapHistogramNumBins - 1) |-> 0],
     nacks |-> 0, plis |-> 0, firs |-> 0,
     nackAcks |-> 0, nackMisses |-> 0, nackRepeated |-> 0,
     lastPli |-> 0, layerLockPlis |-> 0, lastLayerLockPli |-> 0,
     lastFir |-> 0, keyFrames |-> 0, lastKeyFrame |-> 0,
     rtt |-> 0, maxRtt |-> 0,
     srFirst |-> NoSenderReport, srNewest |-> NoSenderReport,
     nextSnapshotId |-> FirstSnapshotId,
     snapshots |-> << >>]

getExtHighestSN(s) == U32(s.cycles * NumSequenceNumbers + s.highestSN)

getSnInfoOutOfOrderPtr(s, sn) ==
    LET offset == U16(sn - s.highestSN)
        back   == U16(s.highestSN - sn)
    IN  IF offset > 0 /\ offset < HalfRange THEN -1
        ELSE IF back >= SnInfoSize THEN -1
        ELSE (s.snInfoWritePtr - back - 1) % SnInfoSize

setSnInfo(s, sn, pktSize, hdrSize, payloadSize, marker, isOutOfOrder) ==
    LET ooo      == U16(sn - s.highestSN) > HalfRange
        writePtr == IF ~ooo THEN s.snInfoWritePtr ELSE getSnInfoOutOfOrderPtr(s, sn)
        s1       == IF ~ooo THEN [s EXCEPT !.snInfoWritePtr = (writePtr + 1) % SnInfoSize]
                            ELSE s
    IN  IF writePtr < 0 THEN s1
        ELSE [s1 EXCEPT !.snInfos[writePtr] =
                 [hdrSize |-> hdrSize, pktSize |-> pktSize,
                  isPaddingOnly |-> (payloadSize = 0), marker |-> marker,
                  isOutOfOrder |-> isOutOfOrder]]

RECURSIVE clearSnInfos(_, _, _)
clearSnInfos(s, startInclusive, endExclusive) ==
    IF startInclusive = endExclusive THEN s
    ELSE clearSnInfos(
           [s EXCEPT !.snInfos[s.snInfoWritePtr] =
                        [@ EXCEPT !.pktSize = 0, !.hdrSize = 0,
                                  !.isPaddingOnly = FALSE, !.marker = FALSE],
                     !.snInfoWritePtr = (@ + 1) % SnInfoSize],
           U16(startInclusive + 1), endExclusive)

isSnInfoLost(s, sn) ==
    LET readPtr == getSnInfoOutOfOrderPtr(s, sn)
    IN  IF readPtr < 0 THEN FALSE ELSE s.snInfos[readPtr].pktSize = 0

\* mutant: every gap is counted in the first bin
updateGapHistogramInFirstBin(s, gap) ==
    IF gap < 2 THEN s
    ELSE [s EXCEPT !.gapHistogram[0] = U32(@ + 1)]

updateGapHistogram(s, gap) ==
    IF gap < 2 THEN s
    ELSE LET missing == gap - 1
         IN  IF missing > GapHistogramNumBins
             THEN [s EXCEPT !.gapHistogram[GapHistogramNumBins - 1] = U32(@ + 1)]
             ELSE [s EXCEPT !.gapHistogram[missing - 1] = U32(@ + 1)]

\* the result is [adjusted, r]: the returned bool and the RTPStats afterwards
maybeAdjustStartSN(s, rtph, pktSize, hdrSize, payloadSize) ==
    IF U32(getExtHighestSN(s) - s.extStartSN + 1) >= NumSequenceNumbers \div 2
    THEN [adjusted |-> FALSE, r |-> s]
    ELSE IF U16(rtph.SequenceNumber - U16(s.extStartSN)) < HalfRange
    THEN [adjusted |-> FALSE, r |-> s]
    ELSE
      LET beforeAdjust == s.extStartSN
          s1 == [s EXCEPT
                   !.packetsLost = U32(@ + U32(U16(U16(s.extStartSN) - rtph.SequenceNumber) - 1)),
                   !.extStartSN = rtph.SequenceNumber]
          s2 == setSnInfo(s1, rtph.SequenceNumber, U16(pktSize), U16(hdrSize),
                          U16(payloadSize), rtph.Marker, TRUE)
          s3 == [s2 EXCEPT !.snapshots =
                   [id \in DOMAIN s2.snapshots |->
                      IF s2.snapshots[id].extStartSN = beforeAdjust
                      THEN [s2.snapshots[id] EXCEPT !.extStartSN = s2.extStartSN]
                      ELSE s2.snapshots[id]]]
      IN [adjusted |-> TRUE, r |-> s3]

updateJitter(s, rtph, packetTime) ==
    IF s.lastJitterRTP = rtph.Timestamp THEN s
    ELSE
      LET timeSinceFirst == packetTime - s.firstTime
          \* one clock tick is one period of the RTP clock (ClockRate ticks per second)
          packetTimeRTP  == U32(timeSinceFirst)
          transit        == U32(packetTimeRTP - rtph.Timestamp)
          d0             == I32(transit - s.lastTransit)
          d              == IF d0 < 0 THEN I32(-d0) ELSE d0
          jit            == JitterFilter(s.jitter, d)
          s1 == IF s.lastTransit = 0 THEN s
                ELSE [s EXCEPT
                        !.jitter = jit,
                        !.maxJitter = IF JitterGreater(jit, @) THEN jit ELSE @,
                        !.snapshots = [id \in DOMAIN @ |->
                            IF JitterGreater(jit, @[id].maxJitter)
                            THEN [@[id] EXCEPT !.maxJitter = jit] ELSE @[id]]]
      IN [s1 EXCEPT !.lastTransit = transit, !.lastJitterRTP = rtph.Timestamp]

NoFlowState == [HasLoss |-> FALSE, LossStartInclusive |-> 0, LossEndExclusive |-> 0]

\* rtph is the RTP header: [SequenceNumber, Timestamp, Marker, MarshalSize].
\* The result is [r, flowState]: the RTPStats afterwards and the returned RTPFlowState.
Update(s, rtph, payloadSize, paddingSize, packetTime, timeNow) ==
    IF s.endTime # 0 THEN [r |-> s, flowState |-> NoFlowState]
    ELSE
    LET sn    == rtph.SequenceNumber
        first == ~s.initialized
        s1 == IF first
              THEN [s EXCEPT
                      !.initialized = TRUE,
                      !.startTime = timeNow,
                      !.extStartSN = sn,
                      !.highestSN = U16(sn - 1),
                      !.cycles = 0,
                      !.extStartTS = rtph.Timestamp,
                      !.highestTS = rtph.Timestamp,
                      !.tsCycles = 0,
                      !.firstTime = packetTime,
                      !.highestTime = packetTime,
                      !.snapshots =
                         [id \in (DOMAIN @) \cup (FirstSnapshotId..(s.nextSnapshotId - 1)) |->
                            IF id \in FirstSnapshotId..(s.nextSnapshotId - 1)
                            THEN [ZeroSnapshot EXCEPT !.startTime = timeNow,
                                                      !.extStartSN = sn,
                                                      !.extStartSNOverridden = sn]
                            ELSE @[id]]]
              ELSE s
        s2 == IF s1.resyncOnNextPacket
              THEN [s1 EXCEPT !.resyncOnNextPacket = FALSE,
                              !.highestSN = U16(sn - 1),
                              !.highestTS = rtph.Timestamp,
                              !.highestTime = packetTime]
              ELSE s1
        hdrSize == rtph.MarshalSize
        pktSize == hdrSize + payloadSize + paddingSize
        diff    == U16(sn - s2.highestSN)
        dupOrOutOfOrder == diff = 0 \/ diff > HalfRange
        \* case diff == 0 || diff > (1<<15)
        a1  == IF diff # 0 THEN [s2 EXCEPT !.packetsOutOfOrder = U32(@ + 1)] ELSE s2
        adj == maybeAdjustStartSN(a1, rtph, pktSize, hdrSize, payloadSize)
        wasLost == isSnInfoLost(a1, sn)
        a2  == IF adj.adjusted THEN adj.r
               ELSE IF ~wasLost
               THEN [a1 EXCEPT !.bytesDuplicate = @ + pktSize,
                               !.headerBytesDuplicate = @ + hdrSize,
                               !.packetsDuplicate = U32(@ + 1)]
               ELSE setSnInfo([a1 EXCEPT !.packetsLost = U32(@ - 1)], sn, U16(pktSize),
                              U16(hdrSize), U16(payloadSize), rtph.Marker, TRUE)
        isDuplicate == dupOrOutOfOrder /\ ~adj.adjusted /\ ~wasLost
        \* default: in-order
        flowB == IF diff > 1
                 THEN [HasLoss |-> TRUE, LossStartInclusive |-> U16(s2.highestSN + 1),
                       LossEndExclusive |-> sn]
                 ELSE NoFlowState
        b1 == updateGapHistogram(s2, diff)
        b2 == clearSnInfos(b1, U16(b1.highestSN + 1), sn)
        b3 == [b2 EXCEPT !.packetsLost = U32(@ + U32(U16(diff - 1)))]
        b4 == setSnInfo(b3, sn, U16(pktSize), U16(hdrSize), U16(payloadSize),
                        rtph.Marker, FALSE)
        b5 == [b4 EXCEPT !.cycles = IF sn < b4.highestSN /\ ~first THEN U16(@ + 1) ELSE @,
                         !.highestSN = sn]
        b6 == IF rtph.Timestamp # b5.highestTS
              THEN [b5 EXCEPT
                      !.tsCycles = IF rtph.Timestamp < b5.highestTS /\ ~first
                                   THEN U32(@ + 1) ELSE @,
                      !.highestTS = rtph.Timestamp,
                      !.highestTime = packetTime]
              ELSE b5
        s3 == IF dupOrOutOfOrder THEN a2 ELSE b6
        s4 == IF isDuplicate THEN s3
              ELSE IF payloadSize = 0
              THEN [s3 EXCEPT !.packetsPadding = U32(@ + 1),
                              !.bytesPadding = @ + pktSize,
                              !.headerBytesPadding = @ + hdrSize]
              ELSE updateJitter(
                     [s3 EXCEPT !.bytes = @ + pktSize,
                                !.headerBytes = @ + hdrSize,
                                !.frames = IF rtph.Marker THEN U32(@ + 1) ELSE @],
                     rtph, packetTime)
    IN [r |-> s4, flowState |-> IF dupOrOutOfOrder THEN NoFlowState ELSE flowB]

getTotalPacketsPrimary(s) ==
    LET packetsExpected == U32(getExtHighestSN(s) - s.extStartSN + 1)
        packetsSeen     == U32(packetsExpected - s.packetsLost)
    IN  IF s.packetsLost > packetsExpected THEN 0
        ELSE IF s.packetsPadding > packetsSeen THEN 0
        ELSE U32(packetsSeen - s.packetsPadding)

\* mutant: a wrap of the RTP timestamp does not add a cycle
SetRtcpSenderReportDataWithoutCycle(s, srData) ==
    IF ~srData.present \/ ~s.initialized THEN s
    ELSE IF s.srNewest.present /\ s.srNewest.NTPTimestamp > srData.NTPTimestamp THEN s
    ELSE
      LET cycles == IF s.srNewest.present
                    THEN (s.srNewest.RTPTimestampExt \div Uint32Range) * Uint32Range
                    ELSE 0
          srDataCopy == [srData EXCEPT !.RTPTimestampExt = srData.RTPTimestamp + cycles]
          reset == s.srNewest.present
                   /\ srDataCopy.RTPTimestampExt < s.srNewest.RTPTimestampExt
      IN [s EXCEPT !.srNewest = srDataCopy,
                   !.srFirst = IF reset \/ ~s.srFirst.present THEN srDataCopy ELSE @]

\* mutant: a report with an older NTP timestamp is stored like any other
SetRtcpSenderReportDataOfAnyAge(s, srData) ==
    IF ~srData.present \/ ~s.initialized THEN s
    ELSE
      LET base == IF s.srNewest.present
                  THEN (s.srNewest.RTPTimestampExt \div Uint32Range) * Uint32Range
                  ELSE 0
          cycles == IF /\ s.srNewest.present
                       /\ U32(srData.RTPTimestamp - s.srNewest.RTPTimestamp)
                             < Uint32Range \div 2
                       /\ srData.RTPTimestamp < s.srNewest.RTPTimestamp
                    THEN base + Uint32Range
                    ELSE base
          srDataCopy == [srData EXCEPT !.RTPTimestampExt = srData.RTPTimestamp + cycles]
          reset == s.srNewest.present
                   /\ srDataCopy.RTPTimestampExt < s.srNewest.RTPTimestampExt
      IN [s EXCEPT !.srNewest = srDataCopy,
                   !.srFirst = IF reset \/ ~s.srFirst.present THEN srDataCopy ELSE @]

\* mutant: a report whose extended timestamp goes backwards keeps the older srFirst
SetRtcpSenderReportDataKeepingFirst(s, srData) ==
    IF ~srData.present \/ ~s.initialized THEN s
    ELSE IF s.srNewest.present /\ s.srNewest.NTPTimestamp > srData.NTPTimestamp THEN s
    ELSE
      LET base == IF s.srNewest.present
                  THEN (s.srNewest.RTPTimestampExt \div Uint32Range) * Uint32Range
                  ELSE 0
          cycles == IF /\ s.srNewest.present
                       /\ U32(srData.RTPTimestamp - s.srNewest.RTPTimestamp)
                             < Uint32Range \div 2
                       /\ srData.RTPTimestamp < s.srNewest.RTPTimestamp
                    THEN base + Uint32Range
                    ELSE base
          srDataCopy == [srData EXCEPT !.RTPTimestampExt = srData.RTPTimestamp + cycles]
      IN [s EXCEPT !.srNewest = srDataCopy,
                   !.srFirst = IF ~s.srFirst.present THEN srDataCopy ELSE @]

\* srData is [present, RTPTimestamp, RTPTimestampExt, NTPTimestamp, At], and nil is
\* NoSenderReport
SetRtcpSenderReportData(s, srData) ==
    IF ~srData.present \/ ~s.initialized THEN s
    ELSE IF s.srNewest.present /\ s.srNewest.NTPTimestamp > srData.NTPTimestamp THEN s
    ELSE
      LET base == IF s.srNewest.present
                  THEN (s.srNewest.RTPTimestampExt \div Uint32Range) * Uint32Range
                  ELSE 0
          cycles == IF /\ s.srNewest.present
                       /\ U32(srData.RTPTimestamp - s.srNewest.RTPTimestamp)
                             < Uint32Range \div 2
                       /\ srData.RTPTimestamp < s.srNewest.RTPTimestamp
                    THEN base + Uint32Range
                    ELSE base
          srDataCopy == [srData EXCEPT !.RTPTimestampExt = srData.RTPTimestamp + cycles]
          reset == s.srNewest.present
                   /\ srDataCopy.RTPTimestampExt < s.srNewest.RTPTimestampExt
      IN [s EXCEPT !.srNewest = srDataCopy,
                   !.srFirst = IF reset \/ ~s.srFirst.present THEN srDataCopy ELSE @]

\* what UpdateFromReceiverReport does once its guard has let the report through;
\* getRttMs is the outcome [err, rtt] of mediatransportutil.GetRttMs
acceptReceiverReport(s, rr, getRttMs, timeNow) ==
    LET called       == s.srNewest.present
        rtt          == IF called THEN getRttMs.rtt ELSE 0
        isRttChanged == called /\ ~getRttMs.err /\ rtt # s.rtt
        jitter       == JitterOfInt(rr.Jitter)
    IN  IF s.lastRRTime = 0 \/ s.extHighestSNOverridden <= rr.LastSequenceNumber
        THEN [r |-> [s EXCEPT
                  !.extHighestSNOverridden = rr.LastSequenceNumber,
                  !.packetsLostOverridden = rr.TotalLost,
                  !.rtt = IF isRttChanged THEN rtt ELSE @,
                  !.maxRtt = IF isRttChanged /\ rtt > @ THEN rtt ELSE @,
                  !.jitterOverridden = jitter,
                  !.maxJitterOverridden = IF JitterGreater(jitter, @) THEN jitter ELSE @,
                  !.snapshots = [id \in DOMAIN @ |->
                      [@[id] EXCEPT
                         !.maxRtt = IF isRttChanged /\ rtt > @ THEN rtt ELSE @,
                         !.maxJitterOverridden =
                             IF JitterGreater(jitter, @) THEN jitter ELSE @]],
                  !.lastRRTime = timeNow,
                  !.lastRR = rr],
              rtt |-> rtt, isRttChanged |-> isRttChanged]
        ELSE [r |-> s, rtt |-> rtt, isRttChanged |-> isRttChanged]

\* mutant: a report about packets before the first one is not dropped
UpdateFromReceiverReportOfAnySN(s, rr, getRttMs, timeNow) ==
    IF ~s.initialized \/ s.endTime # 0 \/ ~s.params.IsReceiverReportDriven
    THEN [r |-> s, rtt |-> 0, isRttChanged |-> FALSE]
    ELSE acceptReceiverReport(s, rr, getRttMs, timeNow)

UpdateFromReceiverReport(s, rr, getRttMs, timeNow) ==
    IF ~s.initialized \/ s.endTime # 0 \/ ~s.params.IsReceiverReportDriven
       \/ rr.LastSequenceNumber < s.extStartSN
    THEN [r |-> s, rtt |-> 0, isRttChanged |-> FALSE]
    ELSE acceptReceiverReport(s, rr, getRttMs, timeNow)

NewSnapshotId(s, timeNow) ==
    LET id == s.nextSnapshotId
        s1 == IF s.initialized
              THEN [s EXCEPT !.snapshots =
                      [i \in (DOMAIN @) \cup {id} |->
                         IF i = id
                         THEN [ZeroSnapshot EXCEPT !.startTime = timeNow,
                                                   !.extStartSN = s.extStartSN,
                                                   !.extStartSNOverridden = s.extStartSN]
                         ELSE @[i]]]
              ELSE s
    IN [r |-> [s1 EXCEPT !.nextSnapshotId = U32(@ + 1)], id |-> id]

UpdateNack(s, nackCount) ==
    IF s.endTime # 0 THEN s ELSE [s EXCEPT !.nacks = U32(@ + nackCount)]

UpdatePli(s, pliCount) ==
    IF s.endTime # 0 THEN s ELSE [s EXCEPT !.plis = U32(@ + pliCount)]

UpdateFir(s, firCount) ==
    IF s.endTime # 0 THEN s ELSE [s EXCEPT !.firs = U32(@ + firCount)]

ResyncOnNextPacket(s) == [s EXCEPT !.resyncOnNextPacket = TRUE]

\* Stop at time.Now(), which is never the zero time
Stop(s, timeNow) == [s EXCEPT !.endTime = timeNow]

IsActive(s) == s.initialized /\ s.endTime = 0

UpdateNackProcessed(s, nackAckCount, nackMissCount, nackRepeatedCount) ==
    IF s.endTime # 0 THEN s
    ELSE [s EXCEPT !.nackAcks = U32(@ + nackAckCount),
                   !.nackMisses = U32(@ + nackMissCount),
                   !.nackRepeated = U32(@ + nackRepeatedCount)]

UpdatePliAndTime(s, pliCount, timeNow) ==
    IF s.endTime # 0 THEN s
    ELSE [s EXCEPT !.plis = U32(@ + pliCount), !.lastPli = timeNow]

UpdatePliTime(s, timeNow) ==
    IF s.endTime # 0 THEN s ELSE [s EXCEPT !.lastPli = timeNow]

UpdateLayerLockPliAndTime(s, pliCount, timeNow) ==
    IF s.endTime # 0 THEN s
    ELSE [s EXCEPT !.layerLockPlis = U32(@ + pliCount), !.lastLayerLockPli = timeNow]

UpdateFirTime(s, timeNow) ==
    IF s.endTime # 0 THEN s ELSE [s EXCEPT !.lastFir = timeNow]

UpdateKeyFrame(s, kfCount, timeNow) ==
    IF s.endTime # 0 THEN s
    ELSE [s EXCEPT !.keyFrames = U32(@ + kfCount), !.lastKeyFrame = timeNow]

\* mutant: the round trip time is recorded whether the stream has ended or not
UpdateRttOfEnded(s, rtt) ==
    [s EXCEPT !.rtt = rtt,
              !.maxRtt = IF rtt > @ THEN rtt ELSE @,
              !.snapshots = [i \in DOMAIN @ |->
                               [@[i] EXCEPT !.maxRtt = IF rtt > @ THEN rtt ELSE @]]]

UpdateRtt(s, rtt) ==
    IF s.endTime # 0 THEN s
    ELSE [s EXCEPT !.rtt = rtt,
                   !.maxRtt = IF rtt > @ THEN rtt ELSE @,
                   !.snapshots = [i \in DOMAIN @ |->
                                    [@[i] EXCEPT !.maxRtt = IF rtt > @ THEN rtt ELSE @]]]

getExtHighestSNAdjusted(s) ==
    IF s.params.IsReceiverReportDriven /\ s.lastRRTime # 0
    THEN s.extHighestSNOverridden
    ELSE getExtHighestSN(s)

\* mutant: the rotation writes the new snapshot over the snapshot of every id
getAndResetSnapshotOfAll(s, snapshotId, override, timeNow) ==
    IF ~s.initialized \/ (override /\ s.lastRRTime = 0)
    THEN [ok |-> FALSE, then |-> ZeroSnapshot, now |-> ZeroSnapshot, r |-> s]
    ELSE
      LET then == IF snapshotId \in DOMAIN s.snapshots
                  THEN s.snapshots[snapshotId]
                  ELSE [ZeroSnapshot EXCEPT !.startTime = s.startTime,
                                            !.extStartSN = s.extStartSN,
                                            !.extStartSNOverridden = s.extStartSN]
          startTime == IF override THEN s.lastRRTime ELSE timeNow
          snapshotNow ==
              [startTime |-> startTime,
               extStartSN |-> U32(getExtHighestSN(s) + 1),
               extStartSNOverridden |-> U32(getExtHighestSNAdjusted(s) + 1),
               packetsDuplicate |-> s.packetsDuplicate,
               bytesDuplicate |-> s.bytesDuplicate,
               headerBytesDuplicate |-> s.headerBytesDuplicate,
               packetsLostOverridden |-> s.packetsLostOverridden,
               nacks |-> s.nacks, plis |-> s.plis, firs |-> s.firs,
               maxRtt |-> s.rtt,
               maxJitter |-> s.jitter,
               maxJitterOverridden |-> s.jitterOverridden]
      IN [ok |-> TRUE, then |-> then, now |-> snapshotNow,
          r |-> [s EXCEPT !.snapshots =
                   [i \in (DOMAIN @) \cup {snapshotId} |->
                      snapshotNow]]]

\* the result is [ok, then, now, r]: ok is FALSE when the source returns nil, nil
getAndResetSnapshot(s, snapshotId, override, timeNow) ==
    IF ~s.initialized \/ (override /\ s.lastRRTime = 0)
    THEN [ok |-> FALSE, then |-> ZeroSnapshot, now |-> ZeroSnapshot, r |-> s]
    ELSE
      LET then == IF snapshotId \in DOMAIN s.snapshots
                  THEN s.snapshots[snapshotId]
                  ELSE [ZeroSnapshot EXCEPT !.startTime = s.startTime,
                                            !.extStartSN = s.extStartSN,
                                            !.extStartSNOverridden = s.extStartSN]
          startTime == IF override THEN s.lastRRTime ELSE timeNow
          snapshotNow ==
              [startTime |-> startTime,
               extStartSN |-> U32(getExtHighestSN(s) + 1),
               extStartSNOverridden |-> U32(getExtHighestSNAdjusted(s) + 1),
               packetsDuplicate |-> s.packetsDuplicate,
               bytesDuplicate |-> s.bytesDuplicate,
               headerBytesDuplicate |-> s.headerBytesDuplicate,
               packetsLostOverridden |-> s.packetsLostOverridden,
               nacks |-> s.nacks, plis |-> s.plis, firs |-> s.firs,
               maxRtt |-> s.rtt,
               maxJitter |-> s.jitter,
               maxJitterOverridden |-> s.jitterOverridden]
      IN [ok |-> TRUE, then |-> then, now |-> snapshotNow,
          r |-> [s EXCEPT !.snapshots =
                   [i \in (DOMAIN @) \cup {snapshotId} |->
                      IF i = snapshotId THEN snapshotNow ELSE @[i]]]]

ZeroIntervalStats ==
    [packets |-> 0, bytes |-> 0, headerBytes |-> 0, packetsPadding |-> 0,
     bytesPadding |-> 0, headerBytesPadding |-> 0, packetsLost |-> 0,
     packetsOutOfOrder |-> 0, frames |-> 0]

\* processSN of getIntervalStats: one sequence number added to the interval stats
processSN(s, st, sn) ==
    LET readPtr == getSnInfoOutOfOrderPtr(s, sn)
    IN  IF readPtr < 0 THEN st
        ELSE
          LET snInfo == s.snInfos[readPtr]
              st1 == IF snInfo.pktSize = 0
                     THEN [st EXCEPT !.packetsLost = U32(@ + 1)]
                     ELSE IF snInfo.isPaddingOnly
                     THEN [st EXCEPT !.packetsPadding = U32(@ + 1),
                                     !.bytesPadding = @ + snInfo.pktSize,
                                     !.headerBytesPadding = @ + snInfo.hdrSize]
                     ELSE [st EXCEPT !.packets = U32(@ + 1),
                                     !.bytes = @ + snInfo.pktSize,
                                     !.headerBytes = @ + snInfo.hdrSize,
                                     !.packetsOutOfOrder =
                                        IF snInfo.isOutOfOrder THEN U32(@ + 1) ELSE @]
          IN IF snInfo.marker THEN [st1 EXCEPT !.frames = U32(@ + 1)] ELSE st1

\* the loop for sn := startInclusive; sn != endExclusive; sn++
RECURSIVE intervalLoop(_, _, _, _)
intervalLoop(s, st, sn, endExclusive) ==
    IF sn = endExclusive THEN st
    ELSE intervalLoop(s, processSN(s, st, sn), U16(sn + 1), endExclusive)

getIntervalStats(s, startInclusive, endExclusive) ==
    IF startInclusive = endExclusive
    THEN \* a full cycle: sequence number 0 first, then 1 .. 65535
         intervalLoop(s, processSN(s, ZeroIntervalStats, 0), 1, 0)
    ELSE intervalLoop(s, ZeroIntervalStats, startInclusive, endExclusive)

NilResult == [nil |-> TRUE]

\* mutant: an interval of any length is reported
DeltaInfoComputeOfAnyInterval(s, then, snapshotNow) ==
    [nil |-> FALSE, StartTime |-> then.startTime,
     Duration |-> snapshotNow.startTime - then.startTime,
     Packets |-> U32(snapshotNow.extStartSN - then.extStartSN)]

\* The second half of DeltaInfo, under the read lock: from then and now, the copies
\* getAndResetSnapshot returned, and the RTPStats as it is when the read lock is held
DeltaInfoCompute(s, then, snapshotNow) ==
    LET startTime == then.startTime
        endTime   == snapshotNow.startTime
        expected  == U32(snapshotNow.extStartSN - then.extStartSN)
        intervalStats == getIntervalStats(s, U16(then.extStartSN),
                                          U16(snapshotNow.extStartSN))
        empty == [nil |-> FALSE, StartTime |-> startTime, Duration |-> endTime - startTime,
                  Packets |-> 0, Bytes |-> 0, HeaderBytes |-> 0,
                  PacketsDuplicate |-> 0, BytesDuplicate |-> 0, HeaderBytesDuplicate |-> 0,
                  PacketsPadding |-> 0, BytesPadding |-> 0, HeaderBytesPadding |-> 0,
                  PacketsLost |-> 0, Frames |-> 0, RttMax |-> 0, JitterMax |-> JitterZero,
                  Nacks |-> 0, Plis |-> 0, Firs |-> 0]
    IN  IF expected > NumSequenceNumbers THEN NilResult
        ELSE IF expected = 0 THEN empty
        ELSE [empty EXCEPT
                !.Packets = U32(expected - intervalStats.packetsPadding),
                !.Bytes = intervalStats.bytes,
                !.HeaderBytes = intervalStats.headerBytes,
                !.PacketsDuplicate = U32(snapshotNow.packetsDuplicate - then.packetsDuplicate),
                !.BytesDuplicate = snapshotNow.bytesDuplicate - then.bytesDuplicate,
                !.HeaderBytesDuplicate =
                    snapshotNow.headerBytesDuplicate - then.headerBytesDuplicate,
                !.PacketsPadding = intervalStats.packetsPadding,
                !.BytesPadding = intervalStats.bytesPadding,
                !.HeaderBytesPadding = intervalStats.headerBytesPadding,
                !.PacketsLost = intervalStats.packetsLost,
                !.Frames = intervalStats.frames,
                !.RttMax = then.maxRtt,
                \* in periods of the RTP clock; the source scales it to microseconds
                !.JitterMax = then.maxJitter,
                !.Nacks = U32(snapshotNow.nacks - then.nacks),
                !.Plis = U32(snapshotNow.plis - then.plis),
                !.Firs = U32(snapshotNow.firs - then.firs)]

\* The second half of SnapshotRtcpReceptionReport, under the read lock.  The
\* fraction lost is uint8(float32(lost) / float32(expected) * 256), the largest of
\* it and proxyFracLost; LastSenderReport and Delay are read from srNewest.
ReceptionReportCompute(s, then, snapshotNow, proxyFracLost) ==
    LET expected == U32(snapshotNow.extStartSN - then.extStartSN)
        intervalStats == getIntervalStats(s, U16(then.extStartSN),
                                          U16(snapshotNow.extStartSN))
        fracLost == ((intervalStats.packetsLost * 256) \div expected) % 256
    IN  IF expected > NumSequenceNumbers \/ expected = 0 THEN NilResult
        ELSE [nil |-> FALSE,
              FractionLost |-> IF proxyFracLost > fracLost THEN proxyFracLost ELSE fracLost,
              TotalLost |-> s.packetsLost,
              LastSequenceNumber |-> snapshotNow.extStartSN,
              Jitter |-> s.jitter.n \div Pow16(s.jitter.k)]

\* a - b of two jitters, 0 when negative
JitterMinus(a, b) ==
    IF ~JitterGreater(a, b) THEN JitterZero
    ELSE IF a.k >= b.k THEN [n |-> a.n - b.n * Pow16(a.k - b.k), k |-> a.k]
    ELSE [n |-> a.n * Pow16(b.k - a.k) - b.n, k |-> b.k]

\* The second half of DeltaInfoOverridden, under the read lock
DeltaInfoOverriddenCompute(s, then, snapshotNow) ==
    LET startTime == then.startTime
        endTime   == snapshotNow.startTime
        expected  == U32(snapshotNow.extStartSNOverridden - then.extStartSNOverridden)
        intervalStats == getIntervalStats(s, U16(then.extStartSNOverridden),
                                          U16(snapshotNow.extStartSNOverridden))
        reported == U32(snapshotNow.packetsLostOverridden - then.packetsLostOverridden)
        \* int32(packetsLost) < 0
        lost     == IF reported >= Uint32Range \div 2 THEN 0 ELSE reported
        packetsLost == IF lost > expected THEN expected ELSE lost
    IN  IF expected > NumSequenceNumbers \/ expected = 0 THEN NilResult
        ELSE [nil |-> FALSE, StartTime |-> startTime, Duration |-> endTime - startTime,
              Packets |-> U32(expected - intervalStats.packetsPadding),
              Bytes |-> intervalStats.bytes,
              HeaderBytes |-> intervalStats.headerBytes,
              PacketsDuplicate |-> U32(snapshotNow.packetsDuplicate - then.packetsDuplicate),
              BytesDuplicate |-> snapshotNow.bytesDuplicate - then.bytesDuplicate,
              HeaderBytesDuplicate |->
                  snapshotNow.headerBytesDuplicate - then.headerBytesDuplicate,
              PacketsPadding |-> intervalStats.packetsPadding,
              BytesPadding |-> intervalStats.bytesPadding,
              HeaderBytesPadding |-> intervalStats.headerBytesPadding,
              PacketsLost |-> packetsLost,
              PacketsMissing |-> intervalStats.packetsLost,
              PacketsOutOfOrder |-> intervalStats.packetsOutOfOrder,
              Frames |-> intervalStats.frames,
              RttMax |-> then.maxRtt,
              \* in periods of the RTP clock; the source scales it to microseconds
              JitterMax |-> JitterMinus(then.maxJitterOverridden, then.maxJitter),
              Nacks |-> U32(snapshotNow.nacks - then.nacks),
              Plis |-> U32(snapshotNow.plis - then.plis),
              Firs |-> U32(snapshotNow.firs - then.firs)]

\* ------------------------------------------------------------------------
\* Forwarder: the per-packet decision of one subscribed track, an audio track
\* as in TestForwarderGetTranslationParamsAudio or a VP8 video track as in
\* TestForwarderGetTranslationParamsVideo.  A packet is [ssrc, sn, ts,
\* payloadSize] and, with a VP8 payload, vp8 = [PictureID, TL0PICIDX, TID, KEYIDX,
\* IsKeyFrame]; the outbound numbers are the incoming ones plus the offsets.
\* ------------------------------------------------------------------------
NoSSRC == 0

\* the widths of the VP8 picture id (scaled from 15 bits) and key index (5 bits)
PictureIdRange == 64
KeyIdxRange == 32

DefaultMaxSpatialLayer == 2
DefaultMaxTemporalLayer == 3
\* the capacity of a channel without congestion: the largest int64, scaled
ChannelCapacityInfinity == 100
InvalidLayers == [spatial |-> -1, temporal |-> -1]

NewForwarder(kind) ==
    [kind |-> kind,
     muted |-> FALSE, started |-> FALSE, lastSSRC |-> NoSSRC,
     maxLayers |-> IF kind = "video"
                   THEN [spatial |-> DefaultMaxSpatialLayer,
                         temporal |-> DefaultMaxTemporalLayer]
                   ELSE InvalidLayers,
     currentLayers |-> InvalidLayers, targetLayers |-> InvalidLayers,
     \* the spatial layers the publisher sends, nil at first
     availableLayers |-> {},
     lastAllocationState |-> "None", lastAllocationRequestBps |-> 0,
     highestIncomingSN |-> 0, lastSeqNo |-> 0, lastTimestamp |-> 0,
     snOffset |-> 0, tsOffset |-> 0,
     \* the retransmit cache: the offset of each sequence number skipped in a gap
     snOffsets |-> << >>,
     \* the VP8 descriptor last emitted and the offsets of the rewritten one
     lastPictureId |-> 0, lastTl0PicIdx |-> 0, lastKeyIdx |-> 0,
     pictureIdOffset |-> 0, tl0PicIdxOffset |-> 0, keyIdxOffset |-> 0,
     lastDroppedPictureId |-> -1]

Mute(f, muted) ==
    [f |-> [f EXCEPT !.muted = muted], changed |-> f.muted # muted]

NoVP8 == [present |-> FALSE]

\* TranslationParams{shouldDrop: true}, with no rtp and no vp8
Dropped == [shouldDrop |-> TRUE, shouldSendPLI |-> FALSE, vp8 |-> NoVP8]
DroppedWithPLI == [shouldDrop |-> TRUE, shouldSendPLI |-> TRUE, vp8 |-> NoVP8]

Forwarded(ordering, sn, ts) ==
    [shouldDrop |-> FALSE, shouldSendPLI |-> FALSE, snOrdering |-> ordering,
     sequenceNumber |-> sn, timestamp |-> ts, vp8 |-> NoVP8]

\* step 2: the forwarder locks onto the source of its first packet
lockOnto(f, pkt) ==
    [f EXCEPT !.started = TRUE,
              !.lastSSRC = pkt.ssrc,
              !.highestIncomingSN = U16(pkt.sn - 1),
              !.lastSeqNo = U16(pkt.sn - 1),
              !.lastTimestamp = pkt.ts,
              !.snOffset = 0,
              !.tsOffset = 0]

\* mutant: a switch of source keeps the offsets of the old source
switchSourceKeepingOffsets(f, pkt, tsJump) ==
    [f EXCEPT !.lastSSRC = pkt.ssrc,
              !.highestIncomingSN = U16(pkt.sn - 1),
              !.snOffsets = << >>]

\* step 3: snOffset = lastEmittedSN + 1 - incomingSN,
\*         tsOffset = lastEmittedTS + tsJump - incomingTS
switchSource(f, pkt, tsJump) ==
    [f EXCEPT !.lastSSRC = pkt.ssrc,
              !.highestIncomingSN = U16(pkt.sn - 1),
              !.snOffset = U16(f.lastSeqNo + 1 - pkt.sn),
              !.tsOffset = U32(f.lastTimestamp + tsJump - pkt.ts),
              !.snOffsets = << >>]

\* mutant: a packet with the highest incoming sequence number again is forwarded
\* with the last outbound numbers again
translateDuplicates(f, pkt) ==
    LET outSN == U16(pkt.sn + f.snOffset)
        outTS == U32(pkt.ts + f.tsOffset)
    IN  [f |-> [f EXCEPT !.highestIncomingSN = pkt.sn, !.lastSeqNo = outSN,
                         !.lastTimestamp = outTS],
         tp |-> Forwarded("Contiguous", outSN, outTS)]

\* mutant: a contiguous padding-only packet is dropped and its number is not reused
translateLeavingHoleForPadding(f, pkt) ==
    LET diff == U16(pkt.sn - f.highestIncomingSN)
        outSN == U16(pkt.sn + f.snOffset)
        outTS == U32(pkt.ts + f.tsOffset)
        emitted == [f EXCEPT !.highestIncomingSN = pkt.sn,
                             !.lastSeqNo = outSN,
                             !.lastTimestamp = outTS]
    IN  IF diff = 0
        THEN [f |-> f, tp |-> Dropped]
        ELSE IF diff > HalfRange
        THEN IF pkt.sn \in DOMAIN f.snOffsets
             THEN [f |-> [f EXCEPT !.snOffsets =
                             [n \in (DOMAIN @) \ {pkt.sn} |-> @[n]]],
                   tp |-> Forwarded("OutOfOrder", U16(pkt.sn + f.snOffsets[pkt.sn]),
                                    outTS)]
             ELSE [f |-> f, tp |-> Dropped]
        ELSE IF diff = 1
        THEN IF pkt.payloadSize = 0
             THEN [f |-> [f EXCEPT !.highestIncomingSN = pkt.sn], tp |-> Dropped]
             ELSE [f |-> emitted, tp |-> Forwarded("Contiguous", outSN, outTS)]
        ELSE LET skipped == {U16(f.highestIncomingSN + i) : i \in 1..(diff - 1)}
             IN [f |-> [emitted EXCEPT !.snOffsets =
                           [n \in (DOMAIN @) \cup skipped |->
                              IF n \in skipped THEN f.snOffset ELSE @[n]]],
                 tp |-> Forwarded("Gap", outSN, outTS)]

\* steps 4 and 5: the ordering of the packet against the highest incoming sequence
\* number, and what is forwarded
translate(f, pkt) ==
    LET diff == U16(pkt.sn - f.highestIncomingSN)
        outSN == U16(pkt.sn + f.snOffset)
        outTS == U32(pkt.ts + f.tsOffset)
        emitted == [f EXCEPT !.highestIncomingSN = pkt.sn,
                             !.lastSeqNo = outSN,
                             !.lastTimestamp = outTS]
    IN  IF diff = 0
        THEN \* duplicate
             [f |-> f, tp |-> Dropped]
        ELSE IF diff > HalfRange
        THEN \* out-of-order: forwarded when the retransmit cache has it
             IF pkt.sn \in DOMAIN f.snOffsets
             THEN [f |-> [f EXCEPT !.snOffsets =
                             [n \in (DOMAIN @) \ {pkt.sn} |-> @[n]]],
                   tp |-> Forwarded("OutOfOrder", U16(pkt.sn + f.snOffsets[pkt.sn]),
                                    outTS)]
             ELSE [f |-> f, tp |-> Dropped]
        ELSE IF diff = 1
        THEN \* contiguous: a padding-only packet is dropped and its number reused
             IF pkt.payloadSize = 0
             THEN [f |-> [f EXCEPT !.highestIncomingSN = pkt.sn,
                                   !.snOffset = U16(@ - 1)],
                   tp |-> Dropped]
             ELSE [f |-> emitted, tp |-> Forwarded("Contiguous", outSN, outTS)]
        ELSE \* gap: the skipped numbers go to the retransmit cache
             LET skipped == {U16(f.highestIncomingSN + i) : i \in 1..(diff - 1)}
             IN [f |-> [emitted EXCEPT !.snOffsets =
                           [n \in (DOMAIN @) \cup skipped |->
                              IF n \in skipped THEN f.snOffset ELSE @[n]]],
                 tp |-> Forwarded("Gap", outSN, outTS)]

\* steps 2 to 5 for the RTP header
getTranslationParamsCommon(f, pkt, tsJump) ==
    IF ~f.started THEN translate(lockOnto(f, pkt), pkt)
    ELSE IF pkt.ssrc # f.lastSSRC THEN translate(switchSource(f, pkt, tsJump), pkt)
    ELSE translate(f, pkt)

\* the VP8 descriptor offsets at a lock (the descriptor goes out as it came) or at a
\* switch of source (the rewritten descriptor advances by one from the last one)
vp8Offsets(f, pkt, wasStarted) ==
    IF ~wasStarted
    THEN [f EXCEPT !.pictureIdOffset = 0, !.tl0PicIdxOffset = 0, !.keyIdxOffset = 0]
    ELSE [f EXCEPT
            !.pictureIdOffset = (pkt.vp8.PictureID - (f.lastPictureId + 1)) % PictureIdRange,
            !.tl0PicIdxOffset = U8(pkt.vp8.TL0PICIDX - (f.lastTl0PicIdx + 1)),
            !.keyIdxOffset = (pkt.vp8.KEYIDX - (f.lastKeyIdx + 1)) % KeyIdxRange]

\* the rewritten VP8 descriptor
vp8Header(f, pkt) ==
    [pkt.vp8 EXCEPT !.PictureID = (@ - f.pictureIdOffset) % PictureIdRange,
                    !.TL0PICIDX = U8(@ - f.tl0PicIdxOffset),
                    !.KEYIDX = (@ - f.keyIdxOffset) % KeyIdxRange]

\* mutant: a picture dropped for its temporal layer keeps its picture id taken
translateVP8KeepingPictureIds(before, common, pkt) ==
    LET switched == ~before.started \/ pkt.ssrc # before.lastSSRC
        f1 == IF switched THEN vp8Offsets(common.f, pkt, before.started) ELSE common.f
        header == vp8Header(f1, pkt)
    IN  IF pkt.vp8.TID > f1.targetLayers.temporal
        THEN [f |-> [f1 EXCEPT !.snOffset = U16(@ - 1),
                               !.lastSeqNo = U16(@ - 1),
                               !.lastTimestamp = before.lastTimestamp],
              tp |-> Dropped]
        ELSE [f |-> [f1 EXCEPT !.lastPictureId = header.PictureID,
                               !.lastTl0PicIdx = header.TL0PICIDX,
                               !.lastKeyIdx = header.KEYIDX],
              tp |-> [common.tp EXCEPT !.vp8 = header]]

\* step 6 for a packet the RTP steps let through: before is the forwarder before
\* the RTP steps, common what they returned
translateVP8(before, common, pkt) ==
    LET switched == ~before.started \/ pkt.ssrc # before.lastSSRC
        f1 == IF switched THEN vp8Offsets(common.f, pkt, before.started) ELSE common.f
        inOrder == common.tp.snOrdering # "OutOfOrder"
    IN  IF pkt.vp8.TID > f1.targetLayers.temporal
        THEN \* dropped: the outbound numbers it would have taken are given back
             IF inOrder
             THEN [f |-> [f1 EXCEPT
                            !.snOffset = U16(@ - 1),
                            !.lastSeqNo = U16(@ - 1),
                            !.lastTimestamp = before.lastTimestamp,
                            !.pictureIdOffset =
                                IF pkt.vp8.PictureID # f1.lastDroppedPictureId
                                THEN (@ + 1) % PictureIdRange ELSE @,
                            !.lastDroppedPictureId = pkt.vp8.PictureID],
                   tp |-> Dropped]
             ELSE [f |-> before, tp |-> Dropped]
        ELSE LET header == vp8Header(f1, pkt)
             IN  [f |-> IF inOrder
                        THEN [f1 EXCEPT !.lastPictureId = header.PictureID,
                                        !.lastTl0PicIdx = header.TL0PICIDX,
                                        !.lastKeyIdx = header.KEYIDX]
                        ELSE f1,
                  tp |-> [common.tp EXCEPT !.vp8 = header]]

\* mutant: the spatial layer forwarded moves to the target layer at any packet of
\* the target layer
getTranslationParamsVideoAtAnyFrame(f, pkt, layer, tsJump) ==
    IF f.targetLayers = InvalidLayers THEN [f |-> f, tp |-> Dropped]
    ELSE LET f1 == IF layer = f.targetLayers.spatial
                   THEN [f EXCEPT !.currentLayers.spatial = f.targetLayers.spatial]
                   ELSE f
         IN  IF f1.currentLayers.spatial # layer THEN [f |-> f1, tp |-> Dropped]
             ELSE LET common == getTranslationParamsCommon(f1, pkt, tsJump)
                  IN  IF common.tp.shouldDrop \/ ~pkt.vp8.present THEN common
                      ELSE translateVP8(f1, common, pkt)

\* steps 2 and 3 for video: the spatial layer forwarded moves to the target layer
\* at a key frame of the target layer, and only its packets are forwarded
getTranslationParamsVideo(f, pkt, layer, tsJump) ==
    IF f.targetLayers = InvalidLayers THEN [f |-> f, tp |-> Dropped]
    ELSE LET toTarget == /\ f.targetLayers.spatial # f.currentLayers.spatial
                         /\ layer = f.targetLayers.spatial
             keyFrame == pkt.vp8.present /\ pkt.vp8.IsKeyFrame
             f1 == IF toTarget /\ keyFrame
                   THEN [f EXCEPT !.currentLayers.spatial = f.targetLayers.spatial]
                   ELSE f
         IN  IF f1.currentLayers.spatial # layer
             THEN [f |-> f1, tp |-> IF toTarget THEN DroppedWithPLI ELSE Dropped]
             ELSE LET common == getTranslationParamsCommon(f1, pkt, tsJump)
                  IN  IF common.tp.shouldDrop \/ ~pkt.vp8.present THEN common
                      ELSE translateVP8(f1, common, pkt)

\* mutant: a muted forwarder goes on forwarding
GetTranslationParamsWhileMuted(f, pkt, layer, tsJump) ==
    IF f.kind = "video" THEN getTranslationParamsVideo(f, pkt, layer, tsJump)
    ELSE getTranslationParamsCommon(f, pkt, tsJump)

GetTranslationParams(f, pkt, layer, tsJump) ==
    IF f.muted THEN [f |-> f, tp |-> Dropped]
    ELSE IF f.kind = "video" THEN getTranslationParamsVideo(f, pkt, layer, tsJump)
    ELSE getTranslationParamsCommon(f, pkt, tsJump)

\* SetMaxSpatialLayer and SetMaxTemporalLayer of a video forwarder: changed, and
\* the new maximum layers when they changed
SetMaxSpatialLayer(f, spatialLayer) ==
    IF f.kind # "video" \/ spatialLayer = f.maxLayers.spatial
    THEN [f |-> f, changed |-> FALSE, layers |-> InvalidLayers]
    ELSE LET f1 == [f EXCEPT !.maxLayers.spatial = spatialLayer]
         IN  [f |-> f1, changed |-> TRUE, layers |-> f1.maxLayers]

SetMaxTemporalLayer(f, temporalLayer) ==
    IF f.kind # "video" \/ temporalLayer = f.maxLayers.temporal
    THEN [f |-> f, changed |-> FALSE, layers |-> InvalidLayers]
    ELSE LET f1 == [f EXCEPT !.maxLayers.temporal = temporalLayer]
         IN  [f |-> f1, changed |-> TRUE, layers |-> f1.maxLayers]

UptrackLayersChange(f, availableLayers) ==
    [f EXCEPT !.availableLayers = availableLayers]

\* the bitrate of the highest measured cell within the maximum layers, going down
\* from (spatial, temporal); 0 when no cell is measured
RECURSIVE optimalBandwidthNeeded(_, _, _, _)
optimalBandwidthNeeded(f, brs, spatial, temporal) ==
    IF spatial < 0 THEN 0
    ELSE IF temporal < 0
    THEN optimalBandwidthNeeded(f, brs, spatial - 1, f.maxLayers.temporal)
    ELSE IF brs[spatial][temporal] # 0 THEN brs[spatial][temporal]
    ELSE optimalBandwidthNeeded(f, brs, spatial, temporal - 1)

\* mutant: the cells are tried temporal layer first
RECURSIVE highestFittingTemporalMajor(_, _, _, _, _)
highestFittingTemporalMajor(f, brs, capacity, spatial, temporal) ==
    IF temporal < 0 THEN InvalidLayers
    ELSE IF spatial < 0
    THEN highestFittingTemporalMajor(f, brs, capacity, f.maxLayers.spatial, temporal - 1)
    ELSE IF brs[spatial][temporal] # 0 /\ brs[spatial][temporal] <= capacity
    THEN [spatial |-> spatial, temporal |-> temporal]
    ELSE highestFittingTemporalMajor(f, brs, capacity, spatial - 1, temporal)

\* the highest measured cell that fits the capacity, going down from (spatial,
\* temporal), the spatial layers first; InvalidLayers when no cell fits
RECURSIVE highestFitting(_, _, _, _, _)
highestFitting(f, brs, capacity, spatial, temporal) ==
    IF spatial < 0 THEN InvalidLayers
    ELSE IF temporal < 0
    THEN highestFitting(f, brs, capacity, spatial - 1, f.maxLayers.temporal)
    ELSE IF brs[spatial][temporal] # 0 /\ brs[spatial][temporal] <= capacity
    THEN [spatial |-> spatial, temporal |-> temporal]
    ELSE highestFitting(f, brs, capacity, spatial, temporal - 1)

NoAllocation ==
    [change |-> "None", state |-> "None", bandwidthRequested |-> 0,
     bandwidthDelta |-> 0, layersChanged |-> FALSE]

\* the result with its state and bandwidth, and the forwarder remembering both
allocated(f, result) ==
    [f |-> [f EXCEPT !.lastAllocationState = result.state,
                     !.lastAllocationRequestBps = result.bandwidthRequested],
     result |-> [result EXCEPT !.bandwidthDelta =
                    result.bandwidthRequested - f.lastAllocationRequestBps]]

\* mutant: the table and the capacity are looked at before the mute
AllocateBeforeMute(f, availableChannelCapacity, brs) ==
    LET optimal == optimalBandwidthNeeded(f, brs, f.maxLayers.spatial,
                                          f.maxLayers.temporal)
    IN  IF optimal = 0 /\ f.availableLayers = {}
        THEN allocated(f, [NoAllocation EXCEPT !.state = "FeedDry"])
        ELSE allocated(f, [NoAllocation EXCEPT !.state = "Muted"])

Allocate(f, availableChannelCapacity, brs) ==
    LET optimal == optimalBandwidthNeeded(f, brs, f.maxLayers.spatial,
                                          f.maxLayers.temporal)
        paused  == f.targetLayers = InvalidLayers
    IN  IF f.kind # "video" THEN [f |-> f, result |-> NoAllocation]
        ELSE IF f.muted
        THEN allocated(f, [NoAllocation EXCEPT !.state = "Muted"])
        ELSE IF optimal = 0
        THEN IF f.availableLayers = {}
             THEN allocated(f, [NoAllocation EXCEPT !.state = "FeedDry"])
             ELSE IF availableChannelCapacity = ChannelCapacityInfinity
             THEN allocated(
                     [f EXCEPT !.targetLayers =
                         [spatial |-> CHOOSE l \in f.availableLayers :
                                         \A k \in f.availableLayers : l <= k,
                          temporal |-> f.maxLayers.temporal]],
                     [NoAllocation EXCEPT !.change = "Resuming",
                                          !.state = "AwaitingMeasurement"])
             ELSE allocated(
                     [f EXCEPT !.targetLayers = InvalidLayers],
                     [NoAllocation EXCEPT !.change = "Pausing",
                                          !.state = "Deficient"])
        ELSE LET target == highestFitting(f, brs, availableChannelCapacity,
                                          f.maxLayers.spatial, f.maxLayers.temporal)
             IN  IF target = InvalidLayers
                 THEN allocated(
                         [f EXCEPT !.targetLayers = InvalidLayers],
                         [NoAllocation EXCEPT
                            !.change = IF paused THEN "None" ELSE "Pausing",
                            !.state = "Deficient",
                            !.layersChanged = ~paused])
                 ELSE LET bandwidth == brs[target.spatial][target.temporal]
                      IN  allocated(
                             [f EXCEPT !.targetLayers = target],
                             [NoAllocation EXCEPT
                                !.change = IF paused THEN "Resuming" ELSE "None",
                                !.state = IF bandwidth >= optimal THEN "Optimal"
                                          ELSE "Deficient",
                                !.bandwidthRequested = bandwidth,
                                !.layersChanged = target # f.targetLayers])

\* the lowest measured temporal layer of the spatial layer from temporal up, within
\* the maximum layers; -1 when there is none
RECURSIVE nextMeasuredTemporal(_, _, _, _)
nextMeasuredTemporal(f, brs, spatial, temporal) ==
    IF temporal > f.maxLayers.temporal THEN -1
    ELSE IF brs[spatial][temporal] # 0 THEN temporal
    ELSE nextMeasuredTemporal(f, brs, spatial, temporal + 1)

\* the lowest measured cell of the spatial layers from spatial up
RECURSIVE nextMeasuredSpatial(_, _, _)
nextMeasuredSpatial(f, brs, spatial) ==
    IF spatial > f.maxLayers.spatial THEN InvalidLayers
    ELSE LET temporal == nextMeasuredTemporal(f, brs, spatial, 0)
         IN  IF temporal # -1 THEN [spatial |-> spatial, temporal |-> temporal]
             ELSE nextMeasuredSpatial(f, brs, spatial + 1)

\* one step up from the current layers: the next measured temporal layer of the
\* current spatial layer, else the first measured cell of the spatial layers above
nextHigher(f, brs) ==
    LET currentSpatial == IF f.currentLayers.spatial < 0 THEN 0
                          ELSE f.currentLayers.spatial
        temporal == nextMeasuredTemporal(f, brs, currentSpatial,
                                         f.currentLayers.temporal + 1)
    IN  IF temporal # -1 THEN [spatial |-> currentSpatial, temporal |-> temporal]
        ELSE nextMeasuredSpatial(f, brs, f.currentLayers.spatial + 1)

\* the highest measured cell within the maximum layers
highestMeasured(f, brs) ==
    highestFitting(f, brs, ChannelCapacityInfinity, f.maxLayers.spatial,
                   f.maxLayers.temporal)

\* the step up of AllocateNextHigher, taken once its conditions hold
allocateNextHigher(f, brs) ==
    LET target == nextHigher(f, brs)
    IN  IF target = InvalidLayers THEN [f |-> f, result |-> NoAllocation]
        ELSE allocated(
                [f EXCEPT !.targetLayers = target],
                [NoAllocation EXCEPT
                   !.change = IF f.targetLayers = InvalidLayers THEN "Resuming"
                              ELSE "None",
                   !.state = IF target = highestMeasured(f, brs) THEN "Optimal"
                             ELSE "Deficient",
                   !.bandwidthRequested = brs[target.spatial][target.temporal],
                   !.layersChanged = TRUE])

\* mutant: the step up is taken before the stream has reached the target
AllocateNextHigherBeforeLanding(f, brs) ==
    IF f.kind # "video" \/ f.lastAllocationState # "Deficient"
    THEN [f |-> f, result |-> NoAllocation]
    ELSE allocateNextHigher(f, brs)

AllocateNextHigher(f, brs) ==
    IF \/ f.kind # "video"
       \/ f.lastAllocationState # "Deficient"
       \/ f.currentLayers # f.targetLayers
    THEN [f |-> f, result |-> NoAllocation]
    ELSE allocateNextHigher(f, brs)

\* mutant: the allocation is run again whatever the last state
FinalizeAllocateInAnyState(f, brs) ==
    Allocate(f, ChannelCapacityInfinity, brs).f

FinalizeAllocate(f, brs) ==
    IF f.lastAllocationState # "AwaitingMeasurement" THEN f
    ELSE Allocate(f, ChannelCapacityInfinity, brs).f

\* the upstream sources of the track and the step of the outbound timestamp at a
\* switch of source
SSRCs == {1, 2}
TsJump == 1

\* Each source numbers its packets x = 0, 1, 2 .. and sends them with the sequence
\* number FirstSN + x and, frames being two packets long, the timestamp
\* FirstTS + x / 2.  One source begins just before the wrap of both, the other
\* elsewhere.
PacketsPerFrame == 2
FirstSN(ssrc) == IF ssrc = 1 THEN NumSequenceNumbers - 2 ELSE 3
FirstTS(ssrc) == IF ssrc = 1 THEN Uint32Range - 1 ELSE 7

PacketOf(ssrc, x, size) ==
    [ssrc |-> ssrc, sn |-> U16(FirstSN(ssrc) + x),
     ts |-> U32(FirstTS(ssrc) + x \div PacketsPerFrame), payloadSize |-> size]

\* feed[ssrc] is the highest x the source has sent, -1 before its first packet
InitFeed == [ssrc \in SSRCs |-> -1]

\* ------------------------------------------------------------------------
\* TWCCFeedback (twcc_feedback.go): the transport-wide congestion control
\* feedback reports of one subscriber.  FbPktCount is a uint8 at its real width.
\* ------------------------------------------------------------------------
outlierReportFactor == 4
\* estimatedFeedbackIntervalAlpha, in tenths
estimatedFeedbackIntervalAlphaTenths == 9
\* 1 << 7
InOrderRange == 128
\* a unit of report.ReferenceTime in microseconds: 64 * 1000
ReferenceTimeUnit == 64000

TypeTCCPacketNotReceived == "TypeTCCPacketNotReceived"
TypeTCCPacketReceivedSmallDelta == "TypeTCCPacketReceivedSmallDelta"

errFeedbackReportOutOfOrder == "feedback report out-of-order"
NoError == "nil"
NoInfo == [nil |-> TRUE]

NewTWCCFeedback ==
    [lastFeedbackTime |-> 0, estimatedFeedbackInterval |-> 0, highestFeedbackCount |-> 0]

\* the packet status symbols one chunk stands for, in order
chunkSymbols(chunk) ==
    IF chunk.kind = "RunLengthChunk"
    THEN [i \in 1..chunk.RunLength |-> chunk.PacketStatusSymbol]
    ELSE chunk.SymbolList

RECURSIVE reportSymbols(_)
reportSymbols(chunks) ==
    IF chunks = << >> THEN << >>
    ELSE chunkSymbols(Head(chunks)) \o reportSymbols(Tail(chunks))

\* the loops over the chunks and their symbols: snIdx counts the symbols, deltaIdx
\* the received ones; an index past the end of RecvDeltas or of arrivals panics
RECURSIVE reconstructArrivals(_, _, _, _, _, _)
reconstructArrivals(report, symbols, snIdx, deltaIdx, refTime, arrivals) ==
    IF snIdx >= Len(symbols) THEN [panicked |-> FALSE, arrivals |-> arrivals]
    ELSE IF symbols[snIdx + 1] # TypeTCCPacketNotReceived
    THEN IF deltaIdx >= Len(report.RecvDeltas) \/ snIdx >= Len(arrivals)
         THEN [panicked |-> TRUE, arrivals |-> arrivals]
         ELSE LET t == refTime + report.RecvDeltas[deltaIdx + 1]
              IN  reconstructArrivals(report, symbols, snIdx + 1, deltaIdx + 1, t,
                                      [arrivals EXCEPT ![snIdx + 1] = t])
    ELSE reconstructArrivals(report, symbols, snIdx + 1, deltaIdx, refTime, arrivals)

\* time.Duration(alpha*float64(estimate) + (1.0-alpha)*float64(sinceLast))
smoothedFeedbackInterval(estimate, sinceLast) ==
    (estimatedFeedbackIntervalAlphaTenths * estimate
       + (10 - estimatedFeedbackIntervalAlphaTenths) * sinceLast) \div 10

\* mutant: the counts of the reports are compared without the wrap
feedbackIsInOrderWithoutWrap(t, report) ==
    t.lastFeedbackTime = 0 \/ report.FbPktCount >= t.highestFeedbackCount

\* isInOrder: every report before the first accepted one, and then the reports
\* whose count is less than half the uint8 range ahead of the highest one
feedbackIsInOrder(t, report) ==
    t.lastFeedbackTime = 0
    \/ U8(report.FbPktCount - t.highestFeedbackCount) < InOrderRange

\* returns the TWCCFeedback after the call, the info and the error returned, and
\* whether the call panicked instead of returning
HandleRTCP(t, report, timeNow) ==
    LET hasLast   == t.lastFeedbackTime # 0
        isInOrder == feedbackIsInOrder(t, report)
        sinceLast == timeNow - t.lastFeedbackTime
        estimate  == t.estimatedFeedbackInterval
        t1 == IF hasLast /\ isInOrder
              THEN IF estimate = 0
                   THEN [t EXCEPT !.estimatedFeedbackInterval = sinceLast]
                   ELSE IF /\ sinceLast > estimate \div outlierReportFactor
                           /\ sinceLast < outlierReportFactor * estimate
                        THEN [t EXCEPT !.estimatedFeedbackInterval =
                                          smoothedFeedbackInterval(estimate, sinceLast)]
                        ELSE t
              ELSE t
    IN  IF ~isInOrder
        THEN [t |-> t1, info |-> NoInfo, err |-> errFeedbackReportOutOfOrder,
              panicked |-> FALSE]
        ELSE LET t2  == [t1 EXCEPT !.lastFeedbackTime = timeNow,
                                   !.highestFeedbackCount = report.FbPktCount]
                 res == reconstructArrivals(report, reportSymbols(report.PacketChunks),
                           0, 0, report.ReferenceTime * ReferenceTimeUnit,
                           [i \in 1..report.PacketStatusCount |-> 0])
             IN  IF res.panicked
                 THEN [t |-> t2, info |-> NoInfo, err |-> NoError, panicked |-> TRUE]
                 ELSE [t |-> t2,
                       info |-> [nil |-> FALSE, BaseSN |-> report.BaseSequenceNumber,
                                 Arrivals |-> res.arrivals],
                       err |-> NoError, panicked |-> FALSE]

\* ------------------------------------------------------------------------
\* Track (streamallocator/track.go): one subscribed track of a StreamAllocator.
\* A track is [id, source, isSimulcast, priority, maxLayer = [Spatial, Temporal],
\* distance, nackInfos]; distance is what its DownTrack answers to
\* DistanceToDesired when a sorter asks, nackInfos maps a sequence number to the
\* attempts of its NACK.
\* ------------------------------------------------------------------------
PriorityDefaultScreenshare == 255
PriorityDefaultVideo == 1

SetPriority(t, priority) ==
    LET p == IF priority = 0
             THEN IF t.source = "SCREEN_SHARE" THEN PriorityDefaultScreenshare
                  ELSE PriorityDefaultVideo
             ELSE priority
    IN  IF t.priority = p THEN [t |-> t, changed |-> FALSE]
        ELSE [t |-> [t EXCEPT !.priority = p], changed |-> TRUE]

SetMaxLayer(t, layer) ==
    IF t.maxLayer = layer THEN [t |-> t, changed |-> FALSE]
    ELSE [t |-> [t EXCEPT !.maxLayer = layer], changed |-> TRUE]

\* the zero buffer.VideoLayer of a Track that was just allocated
ZeroVideoLayer == [Spatial |-> 0, Temporal |-> 0]

NewTrack(id, source, isSimulcast, maxLayer) ==
    LET t == [id |-> id, source |-> source, isSimulcast |-> isSimulcast,
              priority |-> 0, maxLayer |-> ZeroVideoLayer, distance |-> 0,
              nackInfos |-> << >>]
    IN  SetMaxLayer(SetPriority(t, 0).t, maxLayer).t

TrackUpdateNack(t, nackInfos) ==
    [t EXCEPT !.nackInfos =
        [sn \in (DOMAIN @) \cup {nackInfos[i].SequenceNumber : i \in DOMAIN nackInfos} |->
           LET is == {i \in DOMAIN nackInfos : nackInfos[i].SequenceNumber = sn}
           IN  IF is = {} THEN @[sn]
               ELSE nackInfos[CHOOSE i \in is : \A k \in is : k <= i].Attempts]]

\* mutant: the spatial layers are compared the other way round
TrackSorterLessLowSpatialFirst(a, b) ==
    IF a.priority # b.priority THEN a.priority > b.priority
    ELSE IF a.maxLayer.Spatial # b.maxLayer.Spatial
    THEN a.maxLayer.Spatial < b.maxLayer.Spatial
    ELSE a.maxLayer.Temporal > b.maxLayer.Temporal

TrackSorterLess(a, b) ==
    IF a.priority # b.priority THEN a.priority > b.priority
    ELSE IF a.maxLayer.Spatial # b.maxLayer.Spatial
    THEN a.maxLayer.Spatial > b.maxLayer.Spatial
    ELSE a.maxLayer.Temporal > b.maxLayer.Temporal

MaxDistanceSorterLess(a, b) ==
    IF a.priority # b.priority THEN a.priority > b.priority
    ELSE a.distance > b.distance

\* mutant: the lower priority comes first only when the distances are the same
MinDistanceSorterLessByDistance(a, b) ==
    IF a.distance # b.distance THEN a.distance < b.distance
    ELSE a.priority < b.priority

MinDistanceSorterLess(a, b) ==
    IF a.priority # b.priority THEN a.priority < b.priority
    ELSE a.distance < b.distance

\* the comparison of the sort.Slice of GetAndResetNackStats, on uint16
nackLess(a, b) == U16(a - b) > HalfRange

Less(sorter, a, b) ==
    CASE sorter = "TrackSorter" -> TrackSorterLess(a, b)
      [] sorter = "MaxDistanceSorter" -> MaxDistanceSorterLess(a, b)
      [] sorter = "MinDistanceSorter" -> MinDistanceSorterLess(a, b)
      [] sorter = "nackInfos" -> nackLess(a, b)

Swap(data, i, j) == [data EXCEPT ![i] = data[j], ![j] = data[i]]

\* sort.Sort and sort.Slice on a slice of fewer than 12 elements: the insertion
\* sort, for i := 1; i < n; i++ { for j := i; j > 0 && Less(j, j-1); j--
\* { Swap(j, j-1) } }
RECURSIVE insertDown(_, _, _)
insertDown(sorter, data, j) ==
    IF j > 1 /\ Less(sorter, data[j], data[j - 1])
    THEN insertDown(sorter, Swap(data, j, j - 1), j - 1)
    ELSE data

RECURSIVE insertionSort(_, _, _)
insertionSort(sorter, data, i) ==
    IF i > Len(data) THEN data
    ELSE insertionSort(sorter, insertDown(sorter, data, i), i + 1)

Sort(sorter, data) == insertionSort(sorter, data, 2)

\* the loop over the sorted sequence numbers: rsn and rsi are the start of the
\* run, numRuns grows where a number that does not follow rsn ends a run
RECURSIVE countRuns(_, _, _, _, _)
countRuns(sns, i, rsn, rsi, numRuns) ==
    IF i > Len(sns) THEN numRuns
    ELSE IF sns[i] = U16(rsn + 1) THEN countRuns(sns, i + 1, rsn, rsi, numRuns)
    ELSE countRuns(sns, i + 1, sns[i], i,
                   IF (i - rsi - 1) > 0 THEN numRuns + 1 ELSE numRuns)

\* the loop over the map, in the order the iteration visits it
RECURSIVE nackRange(_, _, _, _)
nackRange(order, i, lowest, highest) ==
    IF i > Len(order) THEN [lowest |-> lowest, highest |-> highest]
    ELSE nackRange(order, i + 1,
                   IF lowest = 0 \/ U16(order[i] - lowest) > HalfRange
                   THEN order[i] ELSE lowest,
                   IF highest = 0 \/ U16(highest - order[i]) > HalfRange
                   THEN order[i] ELSE highest)

RECURSIVE sumAttempts(_, _)
sumAttempts(nackInfos, sns) ==
    IF sns = {} THEN 0
    ELSE LET sn == CHOOSE x \in sns : TRUE
         IN  nackInfos[sn] + sumAttempts(nackInfos, sns \ {sn})

NoNackStats ==
    [lowest |-> 0, highest |-> 0, numNacked |-> 0, numNacks |-> 0, numRuns |-> 0]

\* GetAndResetNackStats, the map visited in the order given
GetAndResetNackStats(t, order) ==
    IF DOMAIN t.nackInfos = {} THEN [t |-> t, stats |-> NoNackStats]
    ELSE LET range == nackRange(order, 1, 0, 0)
             sns == Sort("nackInfos", order)
         IN  [t |-> [t EXCEPT !.nackInfos = << >>],
              stats |-> [lowest |-> range.lowest, highest |-> range.highest,
                         numNacked |-> Cardinality(DOMAIN t.nackInfos),
                         numNacks |-> sumAttempts(t.nackInfos, DOMAIN t.nackInfos),
                         numRuns |-> countRuns(sns, 2, sns[1], 1, 0)]]

\* ------------------------------------------------------------------------
\* Room (rtpstats.go, the room part of the file): the batched participant
\* updates, the holds and the closed channel of one Room.  A ParticipantInfo is
\* [Identity, Sid, Version, JoinedAt, IsPublisher, State].
\* ------------------------------------------------------------------------
NewRoom == [batchedUpdates |-> << >>, holds |-> 0, closed |-> FALSE]

\* delete(r.batchedUpdates, identity)
withoutUpdate(room, identity) ==
    [room EXCEPT !.batchedUpdates = [id \in (DOMAIN @) \ {identity} |-> @[id]]]

\* r.batchedUpdates[identity] = pi
withUpdate(room, pi) ==
    [room EXCEPT !.batchedUpdates =
        [id \in (DOMAIN @) \cup {pi.Identity} |-> IF id = pi.Identity THEN pi ELSE @[id]]]

\* the end of pushAndDequeueUpdates: returned at once, or queued
sendOrQueue(room, pi, shouldSend, updates) ==
    IF shouldSend
    THEN [r |-> withoutUpdate(room, pi.Identity), updates |-> Append(updates, pi)]
    ELSE [r |-> withUpdate(room, pi), updates |-> updates]

\* mutant: an update of the queued session is taken whatever its version
pushAndDequeueUpdatesOfAnyVersion(room, pi, isImmediate) ==
    LET shouldSend == isImmediate \/ pi.IsPublisher
    IN  IF pi.Identity \notin DOMAIN room.batchedUpdates
        THEN sendOrQueue(room, pi, shouldSend, << >>)
        ELSE LET existing == room.batchedUpdates[pi.Identity]
             IN  IF pi.Sid = existing.Sid
                 THEN sendOrQueue(room, pi, shouldSend, << >>)
                 ELSE IF existing.JoinedAt < pi.JoinedAt
                 THEN sendOrQueue(room, pi, TRUE,
                                  <<[existing EXCEPT !.State = "DISCONNECTED"]>>)
                 ELSE [r |-> room, updates |-> << >>]

pushAndDequeueUpdates(room, pi, isImmediate) ==
    LET shouldSend == isImmediate \/ pi.IsPublisher
    IN  IF pi.Identity \notin DOMAIN room.batchedUpdates
        THEN sendOrQueue(room, pi, shouldSend, << >>)
        ELSE LET existing == room.batchedUpdates[pi.Identity]
             IN  IF pi.Sid = existing.Sid
                 THEN IF pi.Version < existing.Version
                      THEN [r |-> room, updates |-> << >>]
                      ELSE sendOrQueue(room, pi, shouldSend, << >>)
                 ELSE IF existing.JoinedAt < pi.JoinedAt
                 THEN sendOrQueue(room, pi, TRUE,
                                  <<[existing EXCEPT !.State = "DISCONNECTED"]>>)
                 ELSE [r |-> room, updates |-> << >>]

\* Hold, under r.lock
Hold(room) ==
    IF room.closed THEN [r |-> room, ok |-> FALSE]
    ELSE [r |-> [room EXCEPT !.holds = @ + 1], ok |-> TRUE]

Release(room) == [room EXCEPT !.holds = @ - 1]

\* the part of CloseIfEmpty under r.lock: whether it goes on to Close, given
\* whether a participant that is not a recorder is in the room and whether the
\* timeout has elapsed
closeIfEmptyDecides(room, occupied, elapsed) ==
    ~(room.closed \/ room.holds > 0) /\ ~occupied /\ elapsed

\* Close, under r.lock: close(r.closed) unless it is closed
Close(room) == [room EXCEPT !.closed = TRUE]

\* ------------------------------------------------------------------------
\* FrameChain (videolayerselector/framechain.go): one chain of a dependency
\* descriptor stream.  The SelectorDecisionCache it asks is the environment:
\* GetDecision answers sd, and a callback registered with ExpectDecision is
\* called once when the decision of its frame is recorded.
\* ------------------------------------------------------------------------
NewFrameChain ==
    [broken |-> TRUE, active |-> FALSE, updatingActive |-> FALSE, expectFrames |-> << >>]

\* mutant: a broken chain goes on with any frame whose predecessor was forwarded
OnFrameWhileBroken(c, extFrameNum, chainDiff, sd) ==
    IF ~c.active THEN [fc |-> c, ok |-> FALSE, expect |-> FALSE]
    ELSE IF chainDiff = 0
    THEN [fc |-> [c EXCEPT !.broken = FALSE, !.expectFrames = << >>],
          ok |-> TRUE, expect |-> FALSE]
    ELSE IF sd = "Forwarded"
    THEN [fc |-> [c EXCEPT !.broken = FALSE], ok |-> TRUE, expect |-> FALSE]
    ELSE IF sd = "Unknown"
    THEN [fc |-> [c EXCEPT !.expectFrames = Append(@, extFrameNum - chainDiff)],
          ok |-> TRUE, expect |-> TRUE]
    ELSE [fc |-> [c EXCEPT !.broken = TRUE], ok |-> FALSE, expect |-> FALSE]

\* mutant: a frame whose predecessor is not decided yet is taken without waiting
\* for the decision
OnFrameNotExpecting(c, extFrameNum, chainDiff, sd) ==
    IF ~c.active THEN [fc |-> c, ok |-> FALSE, expect |-> FALSE]
    ELSE IF chainDiff = 0
    THEN [fc |-> [c EXCEPT !.broken = FALSE, !.expectFrames = << >>],
          ok |-> TRUE, expect |-> FALSE]
    ELSE IF c.broken THEN [fc |-> c, ok |-> FALSE, expect |-> FALSE]
    ELSE IF sd \in {"Forwarded", "Unknown"}
    THEN [fc |-> c, ok |-> TRUE, expect |-> FALSE]
    ELSE [fc |-> [c EXCEPT !.broken = TRUE], ok |-> FALSE, expect |-> FALSE]

\* OnFrame of a frame with chain diff fd.ChainDiffs[chainIdx], GetDecision having
\* answered sd for its predecessor; expect: ExpectDecision was called for it
OnFrame(c, extFrameNum, chainDiff, sd) ==
    IF ~c.active THEN [fc |-> c, ok |-> FALSE, expect |-> FALSE]
    ELSE IF chainDiff = 0
    THEN [fc |-> [c EXCEPT !.broken = FALSE, !.expectFrames = << >>],
          ok |-> TRUE, expect |-> FALSE]
    ELSE IF c.broken THEN [fc |-> c, ok |-> FALSE, expect |-> FALSE]
    ELSE IF sd = "Forwarded" THEN [fc |-> c, ok |-> TRUE, expect |-> FALSE]
    ELSE IF sd = "Unknown"
    THEN [fc |-> [c EXCEPT !.expectFrames = Append(@, extFrameNum - chainDiff)],
          ok |-> TRUE, expect |-> TRUE]
    ELSE [fc |-> [c EXCEPT !.broken = TRUE], ok |-> FALSE, expect |-> FALSE]

\* the first place of frameNum in expectFrames, 0 when it is not there
firstExpected(c, frameNum) ==
    LET is == {i \in DOMAIN c.expectFrames : c.expectFrames[i] = frameNum}
    IN  IF is = {} THEN 0 ELSE CHOOSE i \in is : \A k \in is : i <= k

OnExpectFrameChanged(c, frameNum, decision) ==
    LET i == firstExpected(c, frameNum)
        n == Len(c.expectFrames)
    IN  IF i = 0 THEN c
        ELSE [c EXCEPT !.broken = IF decision # "Forwarded" THEN TRUE ELSE @,
                       !.expectFrames = SubSeq([@ EXCEPT ![i] = c.expectFrames[n]], 1, n - 1)]

BeginUpdateActive(c) == [c EXCEPT !.updatingActive = FALSE]

UpdateActive(c, active) == [c EXCEPT !.updatingActive = @ \/ active]

\* mutant: the chain that becomes active keeps what it knew of its state
EndUpdateActiveKeepingBroken(c) ==
    [c EXCEPT !.updatingActive = FALSE, !.active = c.updatingActive]

EndUpdateActive(c) ==
    LET active == c.updatingActive
    IN  IF active = c.active THEN [c EXCEPT !.updatingActive = FALSE]
        ELSE [c EXCEPT !.updatingActive = FALSE,
                       !.broken = IF ~c.active THEN TRUE ELSE @,
                       !.active = active]

\* nothing recorded and no callback registered
NewSelectorDecisionCache == [recorded |-> << >>, expected |-> << >>]

\* the callers of Hold and Release
Holders == {"h1", "h2", "h3"}

\* no CloseIfEmpty under way, nobody holding the room
NoProcs == [closeIfEmpty |-> "idle", held |-> [h \in Holders |-> FALSE]]

\* ------------------------------------------------------------------------
\* PCTransport (part_001): the negotiation of one peer connection
\* ------------------------------------------------------------------------
\* eventsQueue holds the events posted and not handled yet; localDescription is
\* the offer the peer connection holds (0: none) and hasRemoteDescription whether
\* it has a current remote description.  Ghosts: offersCreated numbers the offers
\* created, unserved says that Negotiate was called and no offer was created
\* since, negotiates and restarts count the calls of Negotiate and ICERestart.
NewPCTransport ==
    [negotiationState |-> "None", eventsQueue |-> << >>, debouncePending |-> FALSE,
     restartAfterGathering |-> FALSE, restartAtNextOffer |-> FALSE,
     localDescription |-> 0, hasRemoteDescription |-> FALSE,
     offersCreated |-> 0, unserved |-> FALSE, negotiates |-> 0, restarts |-> 0]

postEvent(t, e) == [t EXCEPT !.eventsQueue = Append(@, e)]

\* Negotiate of a transport that is not closed
Negotiate(t, force) ==
    IF force
    THEN postEvent([t EXCEPT !.debouncePending = FALSE, !.unserved = TRUE,
                             !.negotiates = @ + 1],
                   [signal |-> "SendOffer"])
    ELSE [t EXCEPT !.debouncePending = TRUE, !.unserved = TRUE, !.negotiates = @ + 1]

\* the function handed to debouncedNegotiate runs
debouncedNegotiateFires(t) ==
    postEvent([t EXCEPT !.debouncePending = FALSE], [signal |-> "SendOffer"])

ICERestart(t) == postEvent([t EXCEPT !.restarts = @ + 1], [signal |-> "ICERestart"])

HandleRemoteDescription(t, sd) ==
    postEvent(t, [signal |-> "RemoteDescriptionReceived", data |-> sd])

\* mutant: an offer is created whatever the state of the negotiation
createAndSendOfferWhileWaiting(t) ==
    LET offer == t.offersCreated + 1
    IN  [t |-> [t EXCEPT !.restartAtNextOffer = FALSE,
                         !.offersCreated = offer,
                         !.localDescription = offer,
                         !.unserved = FALSE,
                         !.negotiationState = "Remote"],
         sent |-> <<offer>>]

\* createAndSendOffer on an open peer connection whose CreateOffer,
\* SetLocalDescription and onOffer succeed; sent: the offers handed to onOffer
createAndSendOffer(t) ==
    IF t.negotiationState = "Remote"
    THEN [t |-> [t EXCEPT !.negotiationState = "Retry"], sent |-> << >>]
    ELSE IF t.negotiationState = "Retry"
    THEN [t |-> t, sent |-> << >>]
    ELSE LET offer == t.offersCreated + 1
         IN  [t |-> [t EXCEPT !.restartAtNextOffer = FALSE,
                              !.offersCreated = offer,
                              !.localDescription = offer,
                              !.unserved = FALSE,
                              !.negotiationState = "Remote"],
              sent |-> <<offer>>]

handleSendOffer(t) == createAndSendOffer(t)

\* mutant: the answer ends the negotiation even when another one was asked for
handleRemoteAnswerReceivedForgettingRetry(t, sd) ==
    IF t.negotiationState = "None" THEN [t |-> t, sent |-> << >>]
    ELSE [t |-> [t EXCEPT !.hasRemoteDescription = TRUE, !.negotiationState = "None"],
          sent |-> << >>]

\* the peer connection takes an answer while it holds a local offer, which is
\* while negotiationState is not None, and refuses it otherwise
handleRemoteAnswerReceived(t, sd) ==
    IF t.negotiationState = "None" THEN [t |-> t, sent |-> << >>]
    ELSE LET t1 == [t EXCEPT !.hasRemoteDescription = TRUE]
         IN  IF t1.negotiationState = "Retry"
             THEN createAndSendOffer([t1 EXCEPT !.negotiationState = "None"])
             ELSE [t |-> [t1 EXCEPT !.negotiationState = "None"], sent |-> << >>]

\* doICERestart on an open peer connection; gathering: ICEGatheringState() is
\* gathering
doICERestart(t, gathering) ==
    IF gathering
    THEN [t |-> [t EXCEPT !.restartAfterGathering = TRUE], sent |-> << >>]
    ELSE IF t.negotiationState = "None" THEN createAndSendOffer(t)
    ELSE IF ~t.hasRemoteDescription
    THEN [t |-> [t EXCEPT !.negotiationState = "Retry", !.restartAtNextOffer = TRUE],
          sent |-> <<t.localDescription>>]
    ELSE createAndSendOffer([t EXCEPT !.negotiationState = "None"])

handleICEGatheringComplete(t) ==
    IF ~t.restartAfterGathering THEN [t |-> t, sent |-> << >>]
    ELSE doICERestart([t EXCEPT !.restartAfterGathering = FALSE], FALSE)

\* handleEvent of the offerer
handleEvent(t, e, gathering) ==
    CASE e.signal = "SendOffer" -> handleSendOffer(t)
      [] e.signal = "RemoteDescriptionReceived" -> handleRemoteAnswerReceived(t, e.data)
      [] e.signal = "ICERestart" -> doICERestart(t, gathering)
      [] e.signal = "ICEGatheringComplete" -> handleICEGatheringComplete(t)

\* ------------------------------------------------------------------------
\* State
\* ------------------------------------------------------------------------
VARIABLES
    r,            \* the RTPStats object
    now,          \* the clock: time.Now() in ticks, one tick per packet
    fedPayload,   \* the sender's sequence numbers fed to Update with payload
    fedPadding,   \* the sender's sequence numbers fed to Update without payload
    last,         \* the last call: its name, its arguments and what it returned
    rd,           \* the DeltaInfo or SnapshotRtcpReceptionReport call in flight
    reads,        \* per snapshot id, what its reads have reported so far
    issued,       \* the ids NewSnapshotId has returned, in order
    calls,        \* how many calls of each kind were made
    fwd,          \* the Forwarder of one subscribed track
    feed,         \* per upstream source, the highest packet it has sent
    twcc,         \* the TWCCFeedback of one subscriber
    report,       \* the transport-wide feedback report to be handled
    tracks,       \* the Tracks of one StreamAllocator, in the order they are held
    room,         \* one Room
    procs,        \* where each goroutine inside a Room call is
    fc,           \* one FrameChain
    decisions,    \* the SelectorDecisionCache the FrameChain asks
    pct,          \* one PCTransport
    wire          \* the offers and answers under way between the transport and its peer

snapVars == <<rd, reads, issued, calls>>
fwdVars == <<fwd, feed>>
twccVars == <<twcc, report>>
roomVars == <<room, procs>>
chainVars == <<fc, decisions>>
pcVars == <<pct, wire>>
vars ==
    <<r, now, fedPayload, fedPadding, last, rd, reads, issued, calls, fwd, feed, twcc,
      report, tracks, room, procs, fc, decisions, pct, wire>>

\* ------------------------------------------------------------------------
\* The ingress: packets of one sender.  The sender numbers its packets with
\* an unbounded counter x and puts x mod 2^16 on the wire; the network drops,
\* delays and duplicates packets, by less than half the sequence number space.
\* ------------------------------------------------------------------------
fedAll == fedPayload \cup fedPadding

SetMax(S) == CHOOSE m \in S : \A e \in S : e <= m
SetMin(S) == CHOOSE m \in S : \A e \in S : m <= e

\* the sender's numbers of a first packet: one near the bottom of the wire range
\* (an earlier packet wraps below 0) and one near its top (the next packets wrap)
FirstSNs == {NumSequenceNumbers + 2, 2 * NumSequenceNumbers - 2}

\* how far from the highest packet fed so far a packet is: late beyond the SnInfo
\* window, late inside it, duplicate of the highest, next, after a gap, after a gap
\* longer than the window, half the sequence number space ahead
ReorderDistances ==
    {-(HalfRange - 1), -SnInfoSize, -(SnInfoSize - 1), -2, -1, 0, 1, 2, 3,
     SnInfoSize + 1, HalfRange}

IngressSNs ==
    IF fedAll = {} THEN FirstSNs
    ELSE {SetMax(fedAll) + d : d \in ReorderDistances}

\* payload packet and padding-only packet
PacketShapes ==
    {[payloadSize |-> 2, paddingSize |-> 0], [payloadSize |-> 0, paddingSize |-> 1]}
HeaderSize == 1

Header(x, ts, marker) ==
    [SequenceNumber |-> U16(x), Timestamp |-> ts, Marker |-> marker,
     MarshalSize |-> HeaderSize]

\* r.Update(header of packet x, payloadSize, paddingSize, time.Now())
DoUpdate(x, shape, ts, marker) ==
    LET res == Update(r, Header(x, ts, marker), shape.payloadSize, shape.paddingSize,
                      now, now)
    IN  /\ r' = res.r
        /\ now' = now + 1
        /\ fedPayload' = IF x \notin fedAll /\ shape.payloadSize # 0 /\ r.endTime = 0
                         THEN fedPayload \cup {x} ELSE fedPayload
        /\ fedPadding' = IF x \notin fedAll /\ shape.payloadSize = 0 /\ r.endTime = 0
                         THEN fedPadding \cup {x} ELSE fedPadding
        /\ last' = [op |-> "Update", x |-> x, payloadSize |-> shape.payloadSize,
                    flowState |-> res.flowState]

NoCall == [op |-> "none"]
NoReport == [nil |-> TRUE]
NoRead == [pc |-> "idle"]
NoCalls ==
    [update |-> 0, read |-> 0, feedback |-> 0, report |-> 0, forward |-> 0,
     receiverReport |-> 0, allocate |-> 0]

InitStats ==
    /\ r = NewRTPStats
    /\ now = 1
    /\ fedPayload = {}
    /\ fedPadding = {}
    /\ last = NoCall
    /\ rd = NoRead
    /\ reads = << >>
    /\ issued = << >>
    /\ calls = NoCalls
    /\ fwd = NewForwarder("audio")
    /\ feed = InitFeed
    /\ tracks = << >>
    /\ room = NewRoom
    /\ procs = NoProcs
    /\ fc = NewFrameChain
    /\ decisions = NewSelectorDecisionCache
    /\ pct = NewPCTransport
    /\ wire = << >>
    /\ twcc = NewTWCCFeedback
    /\ report = NoReport

\* ------------------------------------------------------------------------
\* SpecSN: one RTPStats fed by Update alone, every sequence number reachable
\* ------------------------------------------------------------------------
UpdateSN ==
    /\ now <= MaxPackets
    /\ \E x \in IngressSNs, shape \in PacketShapes : DoUpdate(x, shape, 0, FALSE)
    /\ UNCHANGED snapVars
    /\ UNCHANGED fwdVars
    /\ UNCHANGED <<twccVars, tracks, roomVars, chainVars, pcVars>>

NextSN == UpdateSN

SpecSN == InitStats /\ [][NextSN]_vars

packetsExpected(s) == U32(getExtHighestSN(s) - s.extStartSN + 1)

\* a sequence number the sender used, that was skipped and is inside the SnInfo window
SkippedInWindow(x) ==
    /\ x \notin fedAll
    /\ fedAll # {}
    /\ SetMin(fedAll) < x
    /\ x < SetMax(fedAll)
    /\ SetMax(fedAll) - x < SnInfoSize

\* C2: packetsLost + packetsReceived + packetsPadding = packetsExpected, where
\* packetsExpected = extHighestSN - extStartSN + 1 and packetsReceived and
\* packetsPadding count the distinct sequence numbers fed with and without payload
LostReceivedPaddingIsExpected ==
    r.initialized =>
        r.packetsLost + Cardinality(fedPayload) + Cardinality(fedPadding)
            = packetsExpected(r)

\* C3: in every state after the first Update, extStartSN <= extHighestSN
StartNotAfterHighest ==
    r.initialized => r.extStartSN <= getExtHighestSN(r)

\* C4: packetsExpected = packetsReceived + packetsLost and
\* packetsReceived >= packetsDuplicate + packetsOutOfOrder, packetsReceived being
\* the number of distinct sequence numbers fed
ExpectedIsReceivedPlusLost ==
    r.initialized =>
        /\ packetsExpected(r) = Cardinality(fedAll) + r.packetsLost
        /\ Cardinality(fedAll) >= r.packetsDuplicate + r.packetsOutOfOrder

\* C5: a skipped sequence number that arrives late inside the SnInfo window
\* takes one off packetsLost, adds one to packetsOutOfOrder and is no duplicate
LateArrivalRecoversLoss ==
    [][\A x \in (fedAll' \ fedAll) :
          SkippedInWindow(x) =>
              /\ r'.packetsLost = r.packetsLost - 1
              /\ r'.packetsOutOfOrder = r.packetsOutOfOrder + 1
              /\ r'.packetsDuplicate = r.packetsDuplicate]_vars

\* C5 witness: s, s+1, s+3 were fed, then s+2 arrived late: nothing is lost any more
LateArrivalRecovered ==
    /\ last.op = "Update"
    /\ fedAll = SetMin(fedAll)..SetMax(fedAll)
    /\ Cardinality(fedAll) = 4
    /\ last.x = SetMax(fedAll) - 1
    /\ r.packetsLost = 0
    /\ r.packetsOutOfOrder = 1
    /\ r.packetsDuplicate = 0

\* the packet of the step is a sequence number already fed that is inside the window
DuplicateInWindow(x) ==
    /\ x \in fedAll
    /\ SetMax(fedAll) - x < SnInfoSize

\* C6: Update of a sequence number already received (inside the SnInfo window)
\* leaves the extended highest SN, the highest timestamp, packetsLost, the
\* received byte counters, the frame count, the padding counters and the jitter
\* unchanged and adds exactly one to packetsDuplicate
DuplicateIsIdempotent ==
    [][(last'.op = "Update" /\ DuplicateInWindow(last'.x)) =>
          /\ getExtHighestSN(r') = getExtHighestSN(r)
          /\ r'.highestTS = r.highestTS
          /\ r'.packetsLost = r.packetsLost
          /\ r'.bytes = r.bytes
          /\ r'.headerBytes = r.headerBytes
          /\ r'.frames = r.frames
          /\ r'.packetsPadding = r.packetsPadding
          /\ r'.bytesPadding = r.bytesPadding
          /\ r'.headerBytesPadding = r.headerBytesPadding
          /\ r'.jitter = r.jitter
          /\ r'.packetsDuplicate = r.packetsDuplicate + 1]_vars

\* the step is an Update of an initialized RTPStats; d is how far the packet's
\* sequence number is ahead of highestSN, modulo 2^16
UpdateOfStarted == last'.op = "Update" /\ r.initialized /\ r.endTime = 0
distanceAhead == U16(last'.x - r.highestSN)

\* the packet advances highestSN to its sequence number, and the cycle counter
\* iff the sequence number is below the old highestSN
advancesHighestSN ==
    /\ r'.highestSN = U16(last'.x)
    /\ r'.cycles = IF U16(last'.x) < r.highestSN THEN U16(r.cycles + 1) ELSE r.cycles

keepsHighestSN == r'.highestSN = r.highestSN /\ r'.cycles = r.cycles

\* C22: Update takes a sequence number as newer than highestSN iff
\* d = (SN - highestSN) mod 2^16 is above 0 and below 2^15, and as duplicate or
\* older when d = 0 or d >= 2^15; only a newer packet advances highestSN, and the
\* cycle counter grows exactly when a newer packet's SN is below the old highestSN.
NewerIffWithinHalfRange ==
    [][UpdateOfStarted =>
          IF 0 < distanceAhead /\ distanceAhead < HalfRange
          THEN advancesHighestSN
          ELSE keepsHighestSN]_vars

\* the same with the packet exactly 2^15 ahead taken as newer, as Update takes it
NewerIffWithinHalfRangeInclusive ==
    [][UpdateOfStarted =>
          IF 0 < distanceAhead /\ distanceAhead <= HalfRange
          THEN advancesHighestSN
          ELSE keepsHighestSN]_vars

\* the bin of the gap histogram for a number of missing packets
binOfMissing(missing) ==
    IF missing > GapHistogramNumBins THEN GapHistogramNumBins - 1 ELSE missing - 1

\* C23: an in-order packet with gap g = (SN - highestSN) mod 2^16 > 1 adds exactly
\* g - 1 to packetsLost, adds one to exactly one bin of the gap histogram, the bin
\* of g - 1 missing packets or the last bin beyond it, and returns HasLoss with
\* LossStartInclusive = old highestSN + 1 and LossEndExclusive = SN; with g = 1
\* packetsLost and the histogram stay as they were and HasLoss is false.
GapCountedAsLoss ==
    [][(UpdateOfStarted /\ 0 < distanceAhead /\ distanceAhead < HalfRange) =>
          IF distanceAhead > 1
          THEN /\ r'.packetsLost = U32(r.packetsLost + distanceAhead - 1)
               /\ r'.gapHistogram =
                     [r.gapHistogram EXCEPT ![binOfMissing(distanceAhead - 1)] = U32(@ + 1)]
               /\ last'.flowState =
                     [HasLoss |-> TRUE,
                      LossStartInclusive |-> U16(r.highestSN + 1),
                      LossEndExclusive |-> U16(last'.x)]
          ELSE /\ r'.packetsLost = r.packetsLost
               /\ r'.gapHistogram = r.gapHistogram
               /\ ~last'.flowState.HasLoss]_vars

\* C23 witness: a gap of more packets than the histogram has bins was counted in
\* the last bin, after a gap of one packet across the wrap
LongGapInLastBin ==
    /\ last.op = "Update"
    /\ last.flowState.HasLoss
    /\ r.cycles = 1
    /\ U16(last.flowState.LossEndExclusive - last.flowState.LossStartInclusive)
          > GapHistogramNumBins
    /\ r.gapHistogram[GapHistogramNumBins - 1] = 1
    /\ r.gapHistogram[0] = 1

\* ------------------------------------------------------------------------
\* SpecSnap: one RTPStats with snapshot consumers.  DeltaInfo and
\* SnapshotRtcpReceptionReport run in two steps, as in the source: the
\* rotation of the snapshot under the write lock, then, after the lock was
\* released and the read lock taken, the computation of the result.  Other
\* calls run between the two.
\* ------------------------------------------------------------------------
MaxSnapPackets == 2
MaxSnapshotIds == 2
MaxReads == 2
MaxFeedback == 1

\* late by most of the SnInfo window, duplicate, next, after a gap, half the
\* sequence number space ahead
SnapDistances == {-(SnInfoSize - 1), 0, 1, 2, HalfRange}

SnapIngressSNs ==
    IF fedAll = {} THEN {NumSequenceNumbers + 2}
    ELSE {SetMax(fedAll) + d : d \in SnapDistances}

ReadCalls == {"DeltaInfo", "SnapshotRtcpReceptionReport"}
ProxyFracLost == 0

\* what the call returns when all of it runs at once, under one lock
AtomicRead(s, call, id, timeNow) ==
    LET g == getAndResetSnapshot(s, id, FALSE, timeNow)
    IN  IF ~g.ok THEN NilResult
        ELSE IF call = "DeltaInfo" THEN DeltaInfoCompute(g.r, g.then, g.now)
        ELSE ReceptionReportCompute(g.r, g.then, g.now, ProxyFracLost)

\* a call made while a read is in flight is also made on seq, the RTPStats on which
\* the read has not begun, and atomic collects what the read would return there
Observe(seqNew) ==
    IF rd.pc = "idle" THEN rd
    ELSE [rd EXCEPT !.seq = seqNew,
                    !.atomic = @ \cup {AtomicRead(seqNew, rd.call, rd.id, rd.time)}]

Called(kind) == [calls EXCEPT ![kind] = @ + 1]

SnapUpdate ==
    /\ calls.update < MaxSnapPackets
    /\ \E x \in SnapIngressSNs, shape \in PacketShapes :
         /\ DoUpdate(x, shape, 0, FALSE)
         /\ rd' = IF rd.pc = "idle" THEN rd
                  ELSE Observe(Update(rd.seq, Header(x, 0, FALSE), shape.payloadSize,
                                      shape.paddingSize, now, now).r)
    /\ calls' = Called("update")
    /\ UNCHANGED <<reads, issued>>
    /\ UNCHANGED fwdVars
    /\ UNCHANGED <<twccVars, tracks, roomVars, chainVars, pcVars>>

SnapNewSnapshotId ==
    /\ Len(issued) < MaxSnapshotIds
    /\ LET res == NewSnapshotId(r, now)
       IN  /\ r' = res.r
           /\ issued' = Append(issued, res.id)
           /\ last' = [op |-> "NewSnapshotId", id |-> res.id]
    /\ rd' = IF rd.pc = "idle" THEN rd ELSE Observe(NewSnapshotId(rd.seq, now).r)
    /\ UNCHANGED <<now, fedPayload, fedPadding, reads, calls>>
    /\ UNCHANGED fwdVars
    /\ UNCHANGED <<twccVars, tracks, roomVars, chainVars, pcVars>>

SnapUpdateNack ==
    /\ calls.feedback < MaxFeedback
    /\ r' = UpdateNack(r, 1)
    /\ rd' = IF rd.pc = "idle" THEN rd ELSE Observe(UpdateNack(rd.seq, 1))
    /\ last' = [op |-> "UpdateNack"]
    /\ calls' = Called("feedback")
    /\ UNCHANGED <<now, fedPayload, fedPadding, reads, issued>>
    /\ UNCHANGED fwdVars
    /\ UNCHANGED <<twccVars, tracks, roomVars, chainVars, pcVars>>

SnapUpdatePli ==
    /\ calls.feedback < MaxFeedback
    /\ r' = UpdatePli(r, 1)
    /\ rd' = IF rd.pc = "idle" THEN rd ELSE Observe(UpdatePli(rd.seq, 1))
    /\ last' = [op |-> "UpdatePli"]
    /\ calls' = Called("feedback")
    /\ UNCHANGED <<now, fedPayload, fedPadding, reads, issued>>
    /\ UNCHANGED fwdVars
    /\ UNCHANGED <<twccVars, tracks, roomVars, chainVars, pcVars>>

SnapUpdateFir ==
    /\ calls.feedback < MaxFeedback
    /\ r' = UpdateFir(r, 1)
    /\ rd' = IF rd.pc = "idle" THEN rd ELSE Observe(UpdateFir(rd.seq, 1))
    /\ last' = [op |-> "UpdateFir"]
    /\ calls' = Called("feedback")
    /\ UNCHANGED <<now, fedPayload, fedPadding, reads, issued>>
    /\ UNCHANGED fwdVars
    /\ UNCHANGED <<twccVars, tracks, roomVars, chainVars, pcVars>>

NoReads ==
    [n |-> 0, call |-> "none", contiguous |-> TRUE, end |-> 0,
     dup |-> 0, nacks |-> 0, plis |-> 0, firs |-> 0,
     totalDup |-> 0, totalNacks |-> 0, totalPlis |-> 0, totalFirs |-> 0]

ReadsOf(id) == IF id \in DOMAIN reads THEN reads[id] ELSE NoReads

\* the read of snapshot id returned result for the interval then .. snapshotNow
Reported(call, id, then, snapshotNow, result) ==
    LET old == ReadsOf(id)
        d(f) == IF call = "DeltaInfo" /\ ~result.nil THEN f ELSE 0
        new == [n |-> old.n + 1,
                call |-> call,
                contiguous |-> old.contiguous /\ (old.n = 0 \/ then.extStartSN = old.end),
                end |-> snapshotNow.extStartSN,
                dup |-> U32(old.dup + d(result.PacketsDuplicate)),
                nacks |-> U32(old.nacks + d(result.Nacks)),
                plis |-> U32(old.plis + d(result.Plis)),
                firs |-> U32(old.firs + d(result.Firs)),
                totalDup |-> snapshotNow.packetsDuplicate,
                totalNacks |-> snapshotNow.nacks,
                totalPlis |-> snapshotNow.plis,
                totalFirs |-> snapshotNow.firs]
    IN [i \in (DOMAIN reads) \cup {id} |-> IF i = id THEN new ELSE reads[i]]

\* the first half of the read: r.lock.Lock(); getAndResetSnapshot; r.lock.Unlock()
\* and the return of nil when there is no snapshot
SnapRotate ==
    /\ rd.pc = "idle"
    /\ calls.read < MaxReads
    /\ \E call \in ReadCalls, i \in 1..Len(issued) :
         LET id == issued[i]
             g == getAndResetSnapshot(r, id, FALSE, now)
         IN  /\ ReadsOf(id).call \in {"none", call}
             /\ r' = g.r
             /\ IF g.ok
                THEN /\ rd' = [pc |-> "rotated", call |-> call, id |-> id, time |-> now,
                               then |-> g.then, now |-> g.now, seq |-> r,
                               atomic |-> {AtomicRead(r, call, id, now)}]
                     /\ last' = [op |-> "rotate", call |-> call, id |-> id]
                ELSE /\ rd' = rd
                     /\ last' = [op |-> call, id |-> id, result |-> NilResult,
                                 atomic |-> {NilResult}]
    /\ calls' = Called("read")
    /\ UNCHANGED <<now, fedPayload, fedPadding, reads, issued>>
    /\ UNCHANGED fwdVars
    /\ UNCHANGED <<twccVars, tracks, roomVars, chainVars, pcVars>>

\* the second half of the read: r.lock.RLock(); the result; r.lock.RUnlock()
SnapCompute ==
    /\ rd.pc = "rotated"
    /\ LET result == IF rd.call = "DeltaInfo"
                     THEN DeltaInfoCompute(r, rd.then, rd.now)
                     ELSE ReceptionReportCompute(r, rd.then, rd.now, ProxyFracLost)
       IN  /\ last' = [op |-> rd.call, id |-> rd.id, result |-> result,
                       atomic |-> rd.atomic]
           /\ reads' = Reported(rd.call, rd.id, rd.then, rd.now, result)
    /\ rd' = NoRead
    /\ UNCHANGED <<r, now, fedPayload, fedPadding, issued, calls>>
    /\ UNCHANGED fwdVars
    /\ UNCHANGED <<twccVars, tracks, roomVars, chainVars, pcVars>>

NextSnap ==
    \/ SnapUpdate
    \/ SnapNewSnapshotId
    \/ SnapUpdateNack
    \/ SnapUpdatePli
    \/ SnapUpdateFir
    \/ SnapRotate
    \/ SnapCompute

SpecSnap == InitStats /\ [][NextSnap]_vars

\* C7: the DeltaInfo reads of one snapshot id cover contiguous intervals that do not
\* overlap (each read begins at the sequence number where the read before it
\* ended), and the duplicate, NACK, PLI and FIR counts they reported add up to the
\* totals of the RTPStats at the time of the last read.
DeltaIntervalsSumToTotals ==
    \A id \in DOMAIN reads :
        reads[id].call = "DeltaInfo" =>
            /\ reads[id].contiguous
            /\ reads[id].dup = reads[id].totalDup
            /\ reads[id].nacks = reads[id].totalNacks
            /\ reads[id].plis = reads[id].totalPlis
            /\ reads[id].firs = reads[id].totalFirs

IdsDistinct ==
    \A i, j \in 1..Len(issued) : i # j => issued[i] # issued[j]

ReadLeavesOtherIds ==
    last'.op \in ReadCalls \cup {"rotate"} =>
        \A i \in (DOMAIN r.snapshots) \ {last'.id} :
            i \in DOMAIN r'.snapshots /\ r'.snapshots[i] = r.snapshots[i]

\* C8: the ids NewSnapshotId returns are distinct, and a DeltaInfo or a
\* SnapshotRtcpReceptionReport on one id leaves the snapshot recorded for every
\* other id, its interval start and its counters, as it was.
SnapshotIdsIndependent == []IdsDistinct /\ [][ReadLeavesOtherIds]_vars

\* C8 witness: two ids with snapshots, the first was just read and rotated, and the
\* second kept a snapshot that differs from the first's
OtherSnapshotKept ==
    /\ last.op = "rotate"
    /\ Len(issued) = 2
    /\ last.id = issued[1]
    /\ issued[2] \in DOMAIN r.snapshots
    /\ r.snapshots[issued[2]] # r.snapshots[issued[1]]

\* C9: a DeltaInfo or SnapshotRtcpReceptionReport that runs concurrently with
\* Update returns what it would have returned had the whole read run at one point
\* of the sequence of calls, between its start and its end.
ConcurrentReadIsLinearizable ==
    last.op \in ReadCalls => last.result \in last.atomic

\* ------------------------------------------------------------------------
\* SpecSR: one RTPStats that receives the RTCP sender reports of its sender
\* ------------------------------------------------------------------------
MaxSRPackets == 1
MaxSenderReports == 4

\* the RTP timestamp of a report against the newest report's, modulo 2^32: the same,
\* a little ahead, almost half the range ahead, half the range ahead, more than
\* half the range ahead (so: behind), a little behind
SRTimestampSteps ==
    {0, 1, Uint32Range \div 2 - 1, Uint32Range \div 2, Uint32Range \div 2 + 1,
     Uint32Range - 1}
SRFirstTimestamps == {1, Uint32Range - 2}
SRNtpSteps == {-1, 0, 1}
SRFirstNtp == 1

SenderReports ==
    IF r.srNewest.present
    THEN {[present |-> TRUE,
           RTPTimestamp |-> U32(r.srNewest.RTPTimestamp + d),
           RTPTimestampExt |-> 0,
           NTPTimestamp |-> r.srNewest.NTPTimestamp + e,
           At |-> now] : d \in SRTimestampSteps, e \in SRNtpSteps}
    ELSE {[present |-> TRUE, RTPTimestamp |-> ts, RTPTimestampExt |-> 0,
           NTPTimestamp |-> SRFirstNtp, At |-> now] : ts \in SRFirstTimestamps}

\* the argument of SetRtcpSenderReportData: a report or nil
SenderReportsOrNil == SenderReports \cup {NoSenderReport}

SRUpdate ==
    /\ calls.update < MaxSRPackets
    /\ \E x \in (IF fedAll = {} THEN FirstSNs ELSE {SetMax(fedAll) + 1}) :
         DoUpdate(x, [payloadSize |-> 2, paddingSize |-> 0], 0, FALSE)
    /\ calls' = Called("update")
    /\ UNCHANGED <<rd, reads, issued>>
    /\ UNCHANGED fwdVars
    /\ UNCHANGED <<twccVars, tracks, roomVars, chainVars, pcVars>>

SRSetRtcpSenderReportData ==
    /\ calls.report < MaxSenderReports
    /\ \E srData \in SenderReportsOrNil :
         /\ r' = SetRtcpSenderReportData(r, srData)
         /\ last' = [op |-> "SetRtcpSenderReportData", srData |-> srData]
    /\ calls' = Called("report")
    /\ UNCHANGED <<now, fedPayload, fedPadding, rd, reads, issued>>
    /\ UNCHANGED fwdVars
    /\ UNCHANGED <<twccVars, tracks, roomVars, chainVars, pcVars>>

NextSR ==
    \/ SRUpdate
    \/ SRSetRtcpSenderReportData

SpecSR == InitStats /\ [][NextSR]_vars

\* the RTP timestamp of the report stored in the step is behind the one stored before
SteppedBack ==
    /\ r'.srNewest.RTPTimestamp < r.srNewest.RTPTimestamp
    /\ U32(r'.srNewest.RTPTimestamp - r.srNewest.RTPTimestamp) >= Uint32Range \div 2

MaxFwdPackets == 4
MaxMutes == 2

\* the packet against the highest one its source has sent: late by one, the same
\* again, next, after a gap of one
FeedSteps == {-1, 0, 1, 2}
FeedPayloadSizes == {0, 2}

FwdGetTranslationParams ==
    /\ calls.forward < MaxFwdPackets
    /\ \E ssrc \in SSRCs, d \in FeedSteps, size \in FeedPayloadSizes :
         /\ feed[ssrc] + d >= 0
         /\ LET pkt == PacketOf(ssrc, feed[ssrc] + d, size)
                res == GetTranslationParams(fwd, pkt, 0, TsJump)
            IN  /\ fwd' = res.f
                /\ feed' = IF d > 0 THEN [feed EXCEPT ![ssrc] = @ + d] ELSE feed
                /\ last' = [op |-> "GetTranslationParams", pkt |-> pkt, tp |-> res.tp]
    /\ calls' = Called("forward")
    /\ UNCHANGED <<r, now, fedPayload, fedPadding, rd, reads, issued>>
    /\ UNCHANGED <<twccVars, tracks, roomVars, chainVars, pcVars>>

FwdMute ==
    /\ calls.feedback < MaxMutes
    /\ \E muted \in BOOLEAN :
         LET res == Mute(fwd, muted)
         IN  /\ fwd' = res.f
             /\ last' = [op |-> "Mute", muted |-> muted, changed |-> res.changed]
    /\ calls' = Called("feedback")
    /\ UNCHANGED <<r, now, fedPayload, fedPadding, rd, reads, issued, feed>>
    /\ UNCHANGED <<twccVars, tracks, roomVars, chainVars, pcVars>>

NextFwd ==
    \/ FwdGetTranslationParams
    \/ FwdMute

SpecFwd == InitStats /\ [][NextFwd]_vars

\* the step forwarded a packet, in order, from a forwarder that had emitted before
ForwardedInOrder ==
    /\ last'.op = "GetTranslationParams"
    /\ fwd.started
    /\ ~last'.tp.shouldDrop
    /\ last'.tp.snOrdering \in {"Contiguous", "Gap"}

\* C1 as stated: the outbound sequence number of every packet forwarded in order,
\* the first one after a switch of source included, is the last emitted outbound
\* sequence number + 1 (mod 2^16), and the outbound timestamp of a forwarded
\* packet never decreases
OutboundContinues ==
    [][/\ ForwardedInOrder =>
             last'.tp.sequenceNumber = U16(fwd.lastSeqNo + 1)
       /\ (last'.op = "GetTranslationParams" /\ fwd.started /\ ~last'.tp.shouldDrop) =>
             U32(last'.tp.timestamp - fwd.lastTimestamp) < Uint32Range \div 2]_vars

\* C1: a packet forwarded in order is emitted with the last emitted outbound
\* sequence number + 1 when it is contiguous, the first packet after a switch of
\* source included, whatever its incoming sequence number; when it follows a gap
\* the gap is kept, the outbound number is ahead of the last emitted one by the
\* incoming step; and the outbound timestamp of the packets forwarded in order
\* never decreases, the first one after a switch being tsJump later.
OutboundContinuesKeepingGaps ==
    [][ForwardedInOrder =>
          /\ last'.tp.snOrdering = "Contiguous" =>
                last'.tp.sequenceNumber = U16(fwd.lastSeqNo + 1)
          /\ last'.tp.snOrdering = "Gap" =>
                /\ last'.pkt.ssrc = fwd.lastSSRC
                /\ U16(last'.tp.sequenceNumber - fwd.lastSeqNo)
                      = U16(last'.pkt.sn - fwd.highestIncomingSN)
                /\ U16(last'.tp.sequenceNumber - fwd.lastSeqNo) >= 2
          /\ last'.pkt.ssrc # fwd.lastSSRC =>
                /\ last'.tp.snOrdering = "Contiguous"
                /\ last'.tp.timestamp = U32(fwd.lastTimestamp + TsJump)
          /\ U32(last'.tp.timestamp - fwd.lastTimestamp) < Uint32Range \div 2
          /\ fwd'.lastSeqNo = last'.tp.sequenceNumber
          /\ fwd'.lastTimestamp = last'.tp.timestamp]_vars

\* C1 witness: source 1 was forwarded up to a packet after a gap, then the first
\* packet of source 2 was forwarded with the number after the last emitted one,
\* which is not its incoming number
SwitchedSource ==
    /\ last.op = "GetTranslationParams"
    /\ ~last.tp.shouldDrop
    /\ last.tp.snOrdering = "Contiguous"
    /\ last.pkt.ssrc = 2
    /\ fwd.lastSSRC = 2
    /\ last.tp.sequenceNumber # last.pkt.sn
    /\ feed[1] = 3
    /\ last.tp.sequenceNumber = U16(FirstSN(1) + feed[1] + 1)

\* the step offered a padding-only packet to a started, unmuted forwarder
PaddingOnlyOffered ==
    /\ last'.op = "GetTranslationParams"
    /\ calls'.forward = calls.forward + 1
    /\ fwd.started
    /\ ~fwd.muted
    /\ last'.pkt.payloadSize = 0

\* the ordering of the packet of the step: the first packet of another source
\* takes the place after the last one, a packet of the same source is placed by
\* its distance from the highest incoming sequence number
offeredOrdering ==
    LET diff == U16(last'.pkt.sn - fwd.highestIncomingSN)
    IN  IF last'.pkt.ssrc # fwd.lastSSRC THEN "Contiguous"
        ELSE IF diff = 0 THEN "Duplicate"
        ELSE IF diff > HalfRange THEN "OutOfOrder"
        ELSE IF diff = 1 THEN "Contiguous"
        ELSE "Gap"

\* a contiguous padding-only packet is dropped, nothing is emitted, and the packet
\* after it is due with the outbound number after the last emitted one
contiguousPaddingDropped ==
    /\ last'.tp = Dropped
    /\ fwd'.lastSeqNo = fwd.lastSeqNo
    /\ fwd'.lastTimestamp = fwd.lastTimestamp
    /\ fwd'.highestIncomingSN = last'.pkt.sn
    /\ U16(last'.pkt.sn + 1 + fwd'.snOffset) = U16(fwd.lastSeqNo + 1)

\* a padding-only packet after a gap is forwarded with the gap kept
paddingAfterGapForwarded ==
    /\ ~last'.tp.shouldDrop
    /\ last'.tp.snOrdering = "Gap"
    /\ last'.tp.sequenceNumber = U16(last'.pkt.sn + fwd.snOffset)
    /\ U16(last'.tp.sequenceNumber - fwd.lastSeqNo)
          = U16(last'.pkt.sn - fwd.highestIncomingSN)
    /\ fwd'.lastSeqNo = last'.tp.sequenceNumber

\* C26 as stated: a padding-only packet offered to a started forwarder is dropped
\* when it is out of order; it is dropped when it is contiguous with the last
\* forwarded packet, the offset adjusted so that the next packet in order gets
\* the next outbound sequence number; it is forwarded with ordering Gap when it
\* comes after a gap
PaddingOnlyOutOfOrderDropped ==
    [][PaddingOnlyOffered =>
          /\ offeredOrdering = "OutOfOrder" =>
                /\ last'.tp = Dropped
                /\ fwd' = fwd
          /\ offeredOrdering = "Contiguous" => contiguousPaddingDropped
          /\ offeredOrdering = "Gap" => paddingAfterGapForwarded]_vars

\* C26: a padding-only packet offered to a started, unmuted forwarder is, when it
\* is out of order, dropped unless the retransmit cache has its sequence number,
\* and then it is forwarded with ordering OutOfOrder and the offset of the time it
\* was skipped, nothing of the outbound position moving; when it is contiguous
\* with the last forwarded packet it is dropped and the offset is adjusted so that
\* the next packet in order gets the next outbound sequence number; when it comes
\* after a gap it is forwarded with ordering Gap
PaddingOnlyByOrdering ==
    [][PaddingOnlyOffered =>
          /\ offeredOrdering = "OutOfOrder" =>
                /\ fwd'.lastSeqNo = fwd.lastSeqNo
                /\ fwd'.highestIncomingSN = fwd.highestIncomingSN
                /\ fwd'.snOffset = fwd.snOffset
                /\ IF last'.pkt.sn \in DOMAIN fwd.snOffsets
                   THEN /\ ~last'.tp.shouldDrop
                        /\ last'.tp.snOrdering = "OutOfOrder"
                        /\ last'.tp.sequenceNumber
                              = U16(last'.pkt.sn + fwd.snOffsets[last'.pkt.sn])
                        /\ last'.pkt.sn \notin DOMAIN fwd'.snOffsets
                   ELSE /\ last'.tp = Dropped
                        /\ fwd' = fwd
          /\ offeredOrdering = "Contiguous" => contiguousPaddingDropped
          /\ offeredOrdering = "Gap" => paddingAfterGapForwarded]_vars

\* C26 witness: after a contiguous padding-only packet was dropped and its number
\* reused, a packet came after a gap and the padding-only packet skipped in that
\* gap was forwarded out of order from the cache, with the reused numbering
PaddingOnlyForwardedFromCache ==
    /\ last.op = "GetTranslationParams"
    /\ last.pkt.payloadSize = 0
    /\ ~last.tp.shouldDrop
    /\ last.tp.snOrdering = "OutOfOrder"
    /\ fwd.snOffset = U16(0 - 1)
    /\ last.tp.sequenceNumber = U16(last.pkt.sn - 1)
    /\ fwd.lastSeqNo = U16(last.tp.sequenceNumber + 1)
    /\ feed[2] = -1
    /\ feed[1] = 3

\* the report of the step is one SetRtcpSenderReportData drops: nil, or before the
\* first packet, or with an NTP timestamp older than the newest report's
DroppedSenderReport(srData) ==
    \/ ~srData.present
    \/ ~r.initialized
    \/ r.srNewest.present /\ srData.NTPTimestamp < r.srNewest.NTPTimestamp

\* C11: SetRtcpSenderReportData with nil, or before the first packet initialized
\* the stats, or with a report whose NTP timestamp is older than the newest stored
\* report's, leaves srFirst and srNewest unchanged.
AnachronousSenderReportDropped ==
    [][(last'.op = "SetRtcpSenderReportData" /\ calls'.report = calls.report + 1
        /\ DroppedSenderReport(last'.srData)) =>
            /\ r'.srFirst = r.srFirst
            /\ r'.srNewest = r.srNewest]_vars

\* C11 witness: the last report was older than the newest stored one, which is
\* still the newest and was not the report before it either
OlderSenderReportDropped ==
    /\ last.op = "SetRtcpSenderReportData"
    /\ last.srData.present
    /\ r.srNewest.present
    /\ last.srData.NTPTimestamp < r.srNewest.NTPTimestamp
    /\ r.srFirst # r.srNewest

\* the extended RTP timestamp of the report of the step: the high bits of the
\* newest report's, one cycle more when the 32-bit timestamp is below the newest
\* report's and less than 2^31 ahead of it
extendedTimestampOf(srData) ==
    LET high == (r.srNewest.RTPTimestampExt \div Uint32Range) * Uint32Range
        wrapped == /\ srData.RTPTimestamp < r.srNewest.RTPTimestamp
                   /\ U32(srData.RTPTimestamp - r.srNewest.RTPTimestamp)
                         < Uint32Range \div 2
    IN  srData.RTPTimestamp + (IF wrapped THEN high + Uint32Range ELSE high)

\* C24: when SetRtcpSenderReportData receives a report, its NTP timestamp not older
\* than the newest report's, whose extended RTP timestamp is below
\* srNewest.RTPTimestampExt, srFirst and srNewest are both the new report
\* afterwards; a report whose extended timestamp does not go backwards keeps
\* srFirst.
BackwardSenderReportResets ==
    [][(/\ last'.op = "SetRtcpSenderReportData"
        /\ calls'.report = calls.report + 1
        /\ ~DroppedSenderReport(last'.srData)
        /\ r.srNewest.present) =>
            LET ext == extendedTimestampOf(last'.srData)
                new == [last'.srData EXCEPT !.RTPTimestampExt = ext]
            IN  /\ r'.srNewest = new
                /\ r'.srFirst = IF ext < r.srNewest.RTPTimestampExt THEN new
                                ELSE r.srFirst]_vars

\* C24 witness: srFirst is not the first report accepted (its NTP timestamp is a
\* later one) but the report of the last call, which is srNewest as well, after the
\* extended timestamp had been through a cycle
SenderReportsReset ==
    /\ last.op = "SetRtcpSenderReportData"
    /\ last.srData.present
    /\ r.srFirst.present
    /\ r.srFirst.NTPTimestamp > SRFirstNtp
    /\ r.srFirst = r.srNewest
    /\ r.srFirst.NTPTimestamp = last.srData.NTPTimestamp
    /\ r.srFirst.RTPTimestamp = last.srData.RTPTimestamp
    /\ r.srFirst.RTPTimestampExt >= Uint32Range

\* ------------------------------------------------------------------------
\* SpecRR: one RTPStats of a sender, with packets in order, a snapshot id, a sender
\* report and receiver reports
\* ------------------------------------------------------------------------
MaxRRPackets == 2
MaxReceiverReports == 2

\* rr.LastSequenceNumber against extStartSN: before it, at it, after it
RRLastSNSteps == {-1, 0, 1, 2}
\* the receiver's loss count and jitter: nothing lost, or a loss and some jitter
RRQualities == {[TotalLost |-> 0, Jitter |-> 0], [TotalLost |-> 1, Jitter |-> 2]}

ReceptionReports ==
    {[LastSequenceNumber |-> U32(r.extStartSN + d), TotalLost |-> q.TotalLost,
      Jitter |-> q.Jitter] : d \in RRLastSNSteps, q \in RRQualities}

\* what mediatransportutil.GetRttMs returns: an error, or a round trip time
GetRttMsResults == {[err |-> TRUE, rtt |-> 0], [err |-> FALSE, rtt |-> 1],
                    [err |-> FALSE, rtt |-> 2]}

InitRR ==
    /\ \E driven \in BOOLEAN :
         r = [NewRTPStats EXCEPT !.params.IsReceiverReportDriven = driven]
    /\ now = 1
    /\ fedPayload = {}
    /\ fedPadding = {}
    /\ last = NoCall
    /\ rd = NoRead
    /\ reads = << >>
    /\ issued = << >>
    /\ calls = NoCalls
    /\ fwd = NewForwarder("audio")
    /\ feed = InitFeed
    /\ tracks = << >>
    /\ room = NewRoom
    /\ procs = NoProcs
    /\ fc = NewFrameChain
    /\ decisions = NewSelectorDecisionCache
    /\ pct = NewPCTransport
    /\ wire = << >>
    /\ twcc = NewTWCCFeedback
    /\ report = NoReport

RRUpdate ==
    /\ calls.update < MaxRRPackets
    /\ \E x \in (IF fedAll = {} THEN FirstSNs ELSE {SetMax(fedAll) + 1}) :
         DoUpdate(x, [payloadSize |-> 2, paddingSize |-> 0], 0, FALSE)
    /\ calls' = Called("update")
    /\ UNCHANGED <<rd, reads, issued>>
    /\ UNCHANGED fwdVars
    /\ UNCHANGED <<twccVars, tracks, roomVars, chainVars, pcVars>>

RRNewSnapshotId ==
    /\ issued = << >>
    /\ LET res == NewSnapshotId(r, now)
       IN  /\ r' = res.r
           /\ issued' = Append(issued, res.id)
           /\ last' = [op |-> "NewSnapshotId", id |-> res.id]
    /\ UNCHANGED <<now, fedPayload, fedPadding, rd, reads, calls>>
    /\ UNCHANGED fwdVars
    /\ UNCHANGED <<twccVars, tracks, roomVars, chainVars, pcVars>>

RRSetRtcpSenderReportData ==
    /\ calls.report = 0
    /\ LET srData == [present |-> TRUE, RTPTimestamp |-> 1, RTPTimestampExt |-> 0,
                      NTPTimestamp |-> SRFirstNtp, At |-> now]
       IN  /\ r' = SetRtcpSenderReportData(r, srData)
           /\ last' = [op |-> "SetRtcpSenderReportData", srData |-> srData]
    /\ calls' = Called("report")
    /\ UNCHANGED <<now, fedPayload, fedPadding, rd, reads, issued>>
    /\ UNCHANGED fwdVars
    /\ UNCHANGED <<twccVars, tracks, roomVars, chainVars, pcVars>>

RRUpdateFromReceiverReport ==
    /\ calls.receiverReport < MaxReceiverReports
    /\ \E rr \in ReceptionReports, getRttMs \in GetRttMsResults :
         LET res == UpdateFromReceiverReport(r, rr, getRttMs, now)
         IN  /\ r' = res.r
             /\ last' = [op |-> "UpdateFromReceiverReport", rr |-> rr,
                         rtt |-> res.rtt, isRttChanged |-> res.isRttChanged]
    /\ calls' = Called("receiverReport")
    /\ UNCHANGED <<now, fedPayload, fedPadding, rd, reads, issued>>
    /\ UNCHANGED fwdVars
    /\ UNCHANGED <<twccVars, tracks, roomVars, chainVars, pcVars>>

NextRR ==
    \/ RRUpdate
    \/ RRNewSnapshotId
    \/ RRSetRtcpSenderReportData
    \/ RRUpdateFromReceiverReport

SpecRR == InitRR /\ [][NextRR]_vars

\* C12: UpdateFromReceiverReport with rr.LastSequenceNumber < extStartSN is dropped:
\* it returns (0, false) and leaves extHighestSNOverridden, packetsLostOverridden,
\* rtt, maxRtt, jitterOverridden, maxJitterOverridden, lastRR, lastRRTime and every
\* snapshot as they were.
ReceiverReportBeforeStartDropped ==
    [][(/\ last'.op = "UpdateFromReceiverReport"
        /\ calls'.receiverReport = calls.receiverReport + 1
        /\ last'.rr.LastSequenceNumber < r.extStartSN) =>
            /\ last'.rtt = 0
            /\ last'.isRttChanged = FALSE
            /\ r'.extHighestSNOverridden = r.extHighestSNOverridden
            /\ r'.packetsLostOverridden = r.packetsLostOverridden
            /\ r'.rtt = r.rtt
            /\ r'.maxRtt = r.maxRtt
            /\ r'.jitterOverridden = r.jitterOverridden
            /\ r'.maxJitterOverridden = r.maxJitterOverridden
            /\ r'.lastRR = r.lastRR
            /\ r'.lastRRTime = r.lastRRTime
            /\ r'.snapshots = r.snapshots]_vars

\* C12 witness: a receiver-report-driven RTPStats with a sender report and a
\* snapshot, after an accepted receiver report, was given a report about a packet
\* before the first one, with another loss count and another jitter
ReceiverReportBeforeStart ==
    /\ last.op = "UpdateFromReceiverReport"
    /\ r.initialized
    /\ r.params.IsReceiverReportDriven
    /\ r.srNewest.present
    /\ DOMAIN r.snapshots # {}
    /\ r.lastRRTime # 0
    /\ last.rr.LastSequenceNumber < r.extStartSN
    /\ last.rr.TotalLost # r.packetsLostOverridden
    /\ JitterOfInt(last.rr.Jitter) # r.jitterOverridden

\* ------------------------------------------------------------------------
\* SpecTwcc: one TWCCFeedback handling feedback reports whose counts run ahead of,
\* behind and around the highest count, at several intervals
\* ------------------------------------------------------------------------
MaxTwccReports == 3

\* the count of a report against the highest count so far, modulo 2^8: the same,
\* the next, the last one in order, the first one out of order, the one before
FbPktCountSteps == {0, 1, InOrderRange - 1, InOrderRange, Uint8Range - 1}
FirstFbPktCounts == {5, Uint8Range - 1}
\* the time since the report before
FeedbackIntervals == {2, 5, 40}

\* a report about one received packet
OnePacketReport ==
    [FbPktCount |-> 0, BaseSequenceNumber |-> 7, ReferenceTime |-> 1,
     PacketStatusCount |-> 1,
     PacketChunks |-> <<[kind |-> "RunLengthChunk",
                         PacketStatusSymbol |-> TypeTCCPacketReceivedSmallDelta,
                         RunLength |-> 1]>>,
     RecvDeltas |-> <<250>>]

FeedbackReports ==
    {[OnePacketReport EXCEPT !.FbPktCount = c] :
        c \in (IF calls.feedback = 0 THEN FirstFbPktCounts
               ELSE {U8(twcc.highestFeedbackCount + d) : d \in FbPktCountSteps})}

\* t.HandleRTCP(rep) at the time timeNow
DoHandleRTCP(rep, timeNow) ==
    LET res == HandleRTCP(twcc, rep, timeNow)
    IN  /\ twcc' = res.t
        /\ now' = timeNow
        /\ last' = [op |-> "HandleRTCP", report |-> rep, info |-> res.info,
                    err |-> res.err, panicked |-> res.panicked]
        /\ calls' = Called("feedback")

TwccHandleRTCP ==
    /\ calls.feedback < MaxTwccReports
    /\ \E rep \in FeedbackReports, sinceLast \in FeedbackIntervals :
         DoHandleRTCP(rep, now + sinceLast)
    /\ UNCHANGED <<r, fedPayload, fedPadding, rd, reads, issued, report>>
    /\ UNCHANGED <<fwdVars, tracks, roomVars, chainVars, pcVars>>

NextTwcc == TwccHandleRTCP

SpecTwcc == InitStats /\ [][NextTwcc]_vars

\* C13: the very first report is always accepted; once a report was accepted,
\* HandleRTCP rejects a report with errFeedbackReportOutOfOrder exactly when
\* (report.FbPktCount - highestFeedbackCount) mod 256 >= 128, and a rejected report
\* leaves highestFeedbackCount, lastFeedbackTime and estimatedFeedbackInterval
\* unchanged.
FeedbackOutOfOrderRejected ==
    [][(last'.op = "HandleRTCP" /\ calls'.feedback = calls.feedback + 1) =>
          LET rejected == last'.err = errFeedbackReportOutOfOrder
              ahead    == (last'.report.FbPktCount - twcc.highestFeedbackCount) % 256
          IN  /\ last'.err \in {errFeedbackReportOutOfOrder, NoError}
              /\ calls.feedback = 0 => ~rejected
              /\ calls.feedback > 0 => (rejected <=> ahead >= 128)
              /\ rejected =>
                   /\ last'.info = NoInfo
                   /\ twcc'.highestFeedbackCount = twcc.highestFeedbackCount
                   /\ twcc'.lastFeedbackTime = twcc.lastFeedbackTime
                   /\ twcc'.estimatedFeedbackInterval = twcc.estimatedFeedbackInterval]_vars

\* C13 witness: after the count wrapped from 255 to 0 in order, and the interval
\* estimate was set, a report with count 255 was rejected
FeedbackBehindWrapRejected ==
    /\ last.op = "HandleRTCP"
    /\ last.err = errFeedbackReportOutOfOrder
    /\ last.report.FbPktCount = 255
    /\ twcc.highestFeedbackCount = 0
    /\ twcc.estimatedFeedbackInterval # 0

\* ------------------------------------------------------------------------
\* SpecTwccArrivals: a new TWCCFeedback handling one report, of any shape
\* ------------------------------------------------------------------------
MaxStatusCount == 2
MaxChunks == 2
MaxRunLength == 2
StatusVectorSize == 2
MaxRecvDeltas == 3

PacketStatusSymbols == {TypeTCCPacketNotReceived, TypeTCCPacketReceivedSmallDelta}

PacketStatusChunks ==
    {[kind |-> "RunLengthChunk", PacketStatusSymbol |-> sym, RunLength |-> n] :
        sym \in PacketStatusSymbols, n \in 1..MaxRunLength}
    \cup {[kind |-> "StatusVectorChunk", SymbolList |-> l] :
             l \in [1..StatusVectorSize -> PacketStatusSymbols]}

ChunkLists == UNION {[1..n -> PacketStatusChunks] : n \in 0..MaxChunks}

\* the receive deltas of a report, in microseconds, each one different
RecvDeltaLists == {[k \in 1..n |-> 250 * k] : n \in 0..MaxRecvDeltas}

ArrivalReports ==
    {[FbPktCount |-> 5, BaseSequenceNumber |-> base, ReferenceTime |-> ref,
      PacketStatusCount |-> count, PacketChunks |-> chunks, RecvDeltas |-> deltas] :
        base \in {0, 7}, ref \in {0, 1}, count \in 0..MaxStatusCount,
        chunks \in ChunkLists, deltas \in RecvDeltaLists}

InitArrivals ==
    /\ r = NewRTPStats
    /\ now = 1
    /\ fedPayload = {}
    /\ fedPadding = {}
    /\ last = NoCall
    /\ rd = NoRead
    /\ reads = << >>
    /\ issued = << >>
    /\ calls = NoCalls
    /\ fwd = NewForwarder("audio")
    /\ feed = InitFeed
    /\ tracks = << >>
    /\ room = NewRoom
    /\ procs = NoProcs
    /\ fc = NewFrameChain
    /\ decisions = NewSelectorDecisionCache
    /\ pct = NewPCTransport
    /\ wire = << >>
    /\ twcc = NewTWCCFeedback
    /\ report \in ArrivalReports

ArrivalsHandleRTCP ==
    /\ calls.feedback = 0
    /\ DoHandleRTCP(report, now + 1)
    /\ UNCHANGED <<r, fedPayload, fedPadding, rd, reads, issued, report>>
    /\ UNCHANGED <<fwdVars, tracks, roomVars, chainVars, pcVars>>

NextArrivals == ArrivalsHandleRTCP

SpecTwccArrivals == InitArrivals /\ [][NextArrivals]_vars

\* packet i of the report (from 1) was reported received
reportedReceived(rep, i) ==
    LET symbols == reportSymbols(rep.PacketChunks)
    IN  i <= Len(symbols) /\ symbols[i] # TypeTCCPacketNotReceived

\* the sum of the first n receive deltas
RECURSIVE sumOfDeltas(_, _)
sumOfDeltas(deltas, n) ==
    IF n = 0 THEN 0 ELSE deltas[n] + sumOfDeltas(deltas, n - 1)

\* the arrival time of packet i: 0 when not received, else the reference time in
\* microseconds plus the deltas of the received packets up to and including i
arrivalOf(rep, i) ==
    IF ~reportedReceived(rep, i) THEN 0
    ELSE rep.ReferenceTime * 64000
         + sumOfDeltas(rep.RecvDeltas,
                       Cardinality({j \in 1..i : reportedReceived(rep, j)}))

arrivalsReturned ==
    /\ ~last.panicked
    /\ last.info # NoInfo
    /\ last.info.BaseSN = last.report.BaseSequenceNumber
    /\ Len(last.info.Arrivals) = last.report.PacketStatusCount
    /\ \A i \in 1..last.report.PacketStatusCount :
         last.info.Arrivals[i] = arrivalOf(last.report, i)

\* C14 as stated: for every accepted report HandleRTCP returns BaseSN =
\* report.BaseSequenceNumber and Arrivals of length exactly PacketStatusCount, entry
\* i being 0 if packet i was reported not received and else referenceTime * 64000
\* plus the sum of the receive deltas of the received packets up to and including i
ArrivalsReconstructed ==
    (last.op = "HandleRTCP" /\ last.err = NoError) => arrivalsReturned

\* the chunks of the report say of no packet past PacketStatusCount that it was
\* received, and the report has a receive delta for every received packet
describesItsPackets(rep) ==
    LET symbols == reportSymbols(rep.PacketChunks)
    IN  /\ \A i \in 1..Len(symbols) :
             i > rep.PacketStatusCount => symbols[i] = TypeTCCPacketNotReceived
        /\ Len(rep.RecvDeltas) >= Cardinality({i \in 1..Len(symbols) :
                                                 reportedReceived(rep, i)})

\* the same over the reports that describe their packets
ArrivalsReconstructedOfDescribedPackets ==
    (last.op = "HandleRTCP" /\ last.err = NoError /\ describesItsPackets(last.report))
        => arrivalsReturned

\* ------------------------------------------------------------------------
\* SpecFwdVideo: one Forwarder, of an audio or of a VP8 video track, fed with the
\* packets of two upstream sources, the spatial layers 0 and 1 of the track, while
\* the allocator moves the target layers and the track is muted and unmuted
\* ------------------------------------------------------------------------
MaxVidPackets == 5
MaxTargetChanges == 1
MaxVidMutes == 1

\* the spatial layer the source carries
LayerOf(ssrc) == ssrc - 1

\* The pictures of the first packets of each source: picture number, temporal
\* layer, key frame, and the TL0PICIDX and KEYIDX steps so far.  Layer 0 begins
\* in the middle of a picture sequence, its second picture is a key frame, its
\* third picture has two packets; layer 1 begins with a key frame.
VideoPictures(ssrc) ==
    IF ssrc = 1
    THEN << [pic |-> 0, TID |-> 0, IsKeyFrame |-> FALSE, tl0 |-> 0, key |-> 0],
            [pic |-> 1, TID |-> 0, IsKeyFrame |-> TRUE,  tl0 |-> 1, key |-> 1],
            [pic |-> 2, TID |-> 2, IsKeyFrame |-> FALSE, tl0 |-> 1, key |-> 1],
            [pic |-> 2, TID |-> 2, IsKeyFrame |-> FALSE, tl0 |-> 1, key |-> 1],
            [pic |-> 3, TID |-> 1, IsKeyFrame |-> FALSE, tl0 |-> 1, key |-> 1],
            [pic |-> 4, TID |-> 0, IsKeyFrame |-> FALSE, tl0 |-> 2, key |-> 1] >>
    ELSE << [pic |-> 0, TID |-> 0, IsKeyFrame |-> TRUE,  tl0 |-> 0, key |-> 0],
            [pic |-> 1, TID |-> 2, IsKeyFrame |-> FALSE, tl0 |-> 0, key |-> 0],
            [pic |-> 2, TID |-> 0, IsKeyFrame |-> FALSE, tl0 |-> 1, key |-> 0],
            [pic |-> 3, TID |-> 1, IsKeyFrame |-> FALSE, tl0 |-> 1, key |-> 0] >>

\* the picture of packet x of the source; past the listed ones, one base layer
\* picture per packet
VideoPictureOf(ssrc, x) ==
    LET listed == VideoPictures(ssrc)
        final  == listed[Len(listed)]
        past   == x + 1 - Len(listed)
    IN  IF x < Len(listed) THEN listed[x + 1]
        ELSE [pic |-> final.pic + past, TID |-> 0, IsKeyFrame |-> FALSE,
              tl0 |-> final.tl0 + past, key |-> final.key]

FirstPictureId(ssrc) == IF ssrc = 1 THEN PictureIdRange - 2 ELSE 5
FirstTl0PicIdx(ssrc) == IF ssrc = 1 THEN Uint8Range - 2 ELSE 12
FirstKeyIdx(ssrc) == IF ssrc = 1 THEN KeyIdxRange - 2 ELSE 30

VideoPacketOf(ssrc, x) ==
    LET picture == VideoPictureOf(ssrc, x)
    IN  [ssrc |-> ssrc, sn |-> U16(FirstSN(ssrc) + x),
         ts |-> U32(FirstTS(ssrc) + picture.pic), payloadSize |-> 2,
         vp8 |-> [present |-> TRUE,
                  PictureID |-> (FirstPictureId(ssrc) + picture.pic) % PictureIdRange,
                  TL0PICIDX |-> U8(FirstTl0PicIdx(ssrc) + picture.tl0),
                  TID |-> picture.TID,
                  KEYIDX |-> (FirstKeyIdx(ssrc) + picture.key) % KeyIdxRange,
                  IsKeyFrame |-> picture.IsKeyFrame]]

\* the packet against the highest one its source has sent: the same again, next,
\* after a gap of one
VideoFeedSteps == {0, 1, 2}

\* the targets the allocator chooses
TargetLayers ==
    {InvalidLayers, [spatial |-> 0, temporal |-> 0], [spatial |-> 0, temporal |-> 1],
     [spatial |-> 1, temporal |-> 1]}

NoEmitted == [nil |-> TRUE]

InitFwdVideo ==
    /\ r = NewRTPStats
    /\ now = 1
    /\ fedPayload = {}
    /\ fedPadding = {}
    /\ last = [op |-> "none", emitted |-> NoEmitted, emittedPkt |-> NoEmitted,
               temporalDropsOnly |-> FALSE]
    /\ rd = NoRead
    /\ reads = << >>
    /\ issued = << >>
    /\ calls = NoCalls
    /\ \E kind \in {"audio", "video"} : fwd = NewForwarder(kind)
    /\ feed = InitFeed
    /\ tracks = << >>
    /\ room = NewRoom
    /\ procs = NoProcs
    /\ fc = NewFrameChain
    /\ decisions = NewSelectorDecisionCache
    /\ pct = NewPCTransport
    /\ wire = << >>
    /\ twcc = NewTWCCFeedback
    /\ report = NoReport

\* last.emitted is the last packet forwarded in order, as it went out, and
\* last.emittedPkt as it came in; last.temporalDropsOnly says that every call since then offered the next packet
\* of the same source, that the packet was of a temporal layer above the target
\* and was dropped, and that there was such a call
VidGetTranslationParams ==
    /\ calls.forward < MaxVidPackets
    /\ \E ssrc \in SSRCs, d \in VideoFeedSteps :
         /\ feed[ssrc] + d >= 0
         /\ LET pkt == VideoPacketOf(ssrc, feed[ssrc] + d)
                res == GetTranslationParams(fwd, pkt, LayerOf(ssrc), TsJump)
                inOrder == ~res.tp.shouldDrop /\ res.tp.snOrdering # "OutOfOrder"
                temporalDrop == /\ fwd.kind = "video"
                                /\ fwd.started
                                /\ ~fwd.muted
                                /\ ssrc = fwd.lastSSRC
                                /\ LayerOf(ssrc) = fwd.currentLayers.spatial
                                /\ fwd.targetLayers # InvalidLayers
                                /\ d = 1
                                /\ pkt.vp8.TID > fwd.targetLayers.temporal
                                /\ res.tp.shouldDrop
            IN  /\ fwd' = res.f
                /\ feed' = IF d > 0 THEN [feed EXCEPT ![ssrc] = @ + d] ELSE feed
                /\ last' = [op |-> "GetTranslationParams", pkt |-> pkt,
                            layer |-> LayerOf(ssrc), step |-> d, tp |-> res.tp,
                            emitted |-> IF inOrder THEN res.tp ELSE last.emitted,
                            emittedPkt |-> IF inOrder THEN pkt ELSE last.emittedPkt,
                            afterTemporalDrops |-> last.temporalDropsOnly,
                            temporalDropsOnly |->
                                /\ ~inOrder
                                /\ last.emitted # NoEmitted
                                /\ temporalDrop
                                /\ (last.temporalDropsOnly
                                      \/ (last.op = "GetTranslationParams"
                                            /\ last.tp = last.emitted))]
    /\ calls' = Called("forward")
    /\ UNCHANGED <<r, now, fedPayload, fedPadding, rd, reads, issued>>
    /\ UNCHANGED <<twccVars, tracks, roomVars, chainVars, pcVars>>

\* the allocator sets the target layers of a video track
VidSetTargetLayers ==
    /\ calls.allocate < MaxTargetChanges
    /\ fwd.kind = "video"
    /\ \E target \in TargetLayers :
         /\ fwd' = [fwd EXCEPT !.targetLayers = target]
         /\ last' = [op |-> "SetTargetLayers", target |-> target,
                     emitted |-> last.emitted, emittedPkt |-> last.emittedPkt,
                     temporalDropsOnly |-> FALSE]
    /\ calls' = Called("allocate")
    /\ UNCHANGED <<r, now, fedPayload, fedPadding, rd, reads, issued, feed>>
    /\ UNCHANGED <<twccVars, tracks, roomVars, chainVars, pcVars>>

VidMute ==
    /\ calls.feedback < MaxVidMutes
    /\ \E muted \in BOOLEAN :
         LET res == Mute(fwd, muted)
         IN  /\ fwd' = res.f
             /\ last' = [op |-> "Mute", muted |-> muted, changed |-> res.changed,
                         emitted |-> last.emitted, emittedPkt |-> last.emittedPkt,
                         temporalDropsOnly |-> FALSE]
    /\ calls' = Called("feedback")
    /\ UNCHANGED <<r, now, fedPayload, fedPadding, rd, reads, issued, feed>>
    /\ UNCHANGED <<twccVars, tracks, roomVars, chainVars, pcVars>>

NextFwdVideo ==
    \/ VidGetTranslationParams
    \/ VidSetTargetLayers
    \/ VidMute

SpecFwdVideo == InitFwdVideo /\ [][NextFwdVideo]_vars

\* the step is a call of GetTranslationParams
GetTranslationParamsCalled ==
    last'.op = "GetTranslationParams" /\ calls'.forward = calls.forward + 1

\* C15: while the Forwarder is muted, GetTranslationParams returns shouldDrop =
\* true, with no PLI request and no rewritten RTP header or VP8 descriptor, for
\* every packet on every layer; Mute(b) sets the flag to b and returns true iff
\* that changed the flag.
MutedDropsEverything ==
    [][/\ (GetTranslationParamsCalled /\ fwd.muted) =>
             /\ last'.tp = [shouldDrop |-> TRUE, shouldSendPLI |-> FALSE, vp8 |-> NoVP8]
             /\ fwd' = fwd
       /\ (last'.op = "Mute" /\ calls'.feedback = calls.feedback + 1) =>
             /\ fwd'.muted = last'.muted
             /\ last'.changed <=> (fwd'.muted # fwd.muted)]_vars

\* C15 witness: a video forwarder that was forwarding and was muted then has
\* dropped a key frame of its target layer
MutedKeyFrameDropped ==
    /\ last.op = "GetTranslationParams"
    /\ fwd.kind = "video"
    /\ fwd.muted
    /\ fwd.started
    /\ last.emitted # NoEmitted
    /\ last.layer = fwd.targetLayers.spatial
    /\ last.pkt.vp8.IsKeyFrame
    /\ last.tp.shouldDrop

\* the packet of the step went out with its own sequence number and timestamp
ForwardedAsItCame ==
    /\ ~last'.tp.shouldDrop
    /\ last'.tp.sequenceNumber = last'.pkt.sn
    /\ last'.tp.timestamp = last'.pkt.ts

\* C16: a video Forwarder that has not started locks onto a source (started,
\* lastSSRC the SSRC of the packet, the packet forwarded with its own sequence
\* number and timestamp) only on a packet of the target spatial layer that begins
\* a key frame; with no target layers the packet is dropped without PLI, and a
\* packet of the target layer that is not a key frame is dropped with
\* shouldSendPLI.  An audio Forwarder locks onto the first packet.
LocksOnKeyFrameOfTarget ==
    [][(GetTranslationParamsCalled /\ ~fwd.started /\ ~fwd.muted) =>
          IF fwd.kind = "audio"
          THEN /\ fwd'.started
               /\ fwd'.lastSSRC = last'.pkt.ssrc
               /\ ForwardedAsItCame
          ELSE /\ fwd'.started =>
                    /\ last'.layer = fwd.targetLayers.spatial
                    /\ last'.pkt.vp8.IsKeyFrame
                    /\ fwd'.lastSSRC = last'.pkt.ssrc
                    /\ ForwardedAsItCame
               /\ ~fwd'.started => last'.tp.shouldDrop
               /\ fwd.targetLayers = InvalidLayers =>
                    /\ last'.tp.shouldDrop
                    /\ ~last'.tp.shouldSendPLI
                    /\ ~fwd'.started
               /\ (/\ fwd.targetLayers # InvalidLayers
                   /\ last'.layer = fwd.targetLayers.spatial
                   /\ ~last'.pkt.vp8.IsKeyFrame) =>
                    /\ last'.tp.shouldDrop
                    /\ last'.tp.shouldSendPLI
                    /\ ~fwd'.started]_vars

\* C16 witness: a video forwarder with a target was offered the first packet of
\* layer 0, not a key frame, and then has locked onto the second one, a key frame
LockedOnSecondPacket ==
    /\ last.op = "GetTranslationParams"
    /\ fwd.kind = "video"
    /\ fwd.started
    /\ fwd.lastSSRC = 1
    /\ ~last.tp.shouldDrop
    /\ last.step = 1
    /\ last.pkt.vp8.IsKeyFrame
    /\ last.tp.sequenceNumber = last.pkt.sn
    /\ calls.forward = 2
    /\ feed = [ssrc \in SSRCs |-> IF ssrc = 1 THEN 1 ELSE -1]

TemporalDropLeavesNoHole ==
    [][/\ (/\ GetTranslationParamsCalled
           /\ fwd.kind = "video"
           /\ fwd.targetLayers # InvalidLayers
           /\ last'.pkt.vp8.TID > fwd.targetLayers.temporal) => last'.tp.shouldDrop
       /\ (/\ GetTranslationParamsCalled
           /\ last.temporalDropsOnly
           /\ last'.step = 1
           /\ last'.pkt.ssrc = last.emittedPkt.ssrc
           /\ last'.pkt.vp8.TID <= fwd.targetLayers.temporal) =>
             /\ ~last'.tp.shouldDrop
             /\ last'.tp.snOrdering = "Contiguous"
             /\ last'.tp.sequenceNumber = U16(last.emitted.sequenceNumber + 1)
             /\ last'.tp.vp8.PictureID
                   = (last.emitted.vp8.PictureID + 1) % PictureIdRange]_vars

\* C18 witness: after a picture of two packets and the picture after it were
\* dropped for their temporal layer, the next packet was forwarded, with a
\* rewritten picture id
ForwardedAfterTemporalDrops ==
    /\ last.op = "GetTranslationParams"
    /\ last.afterTemporalDrops
    /\ ~last.tp.shouldDrop
    /\ last.pkt.ssrc = 1
    /\ feed[1] = 5
    /\ last.tp.vp8.PictureID = (last.pkt.vp8.PictureID - 2) % PictureIdRange

\* ------------------------------------------------------------------------
\* SpecAlloc: the allocator asks a video Forwarder for an allocation, with several
\* bitrate tables and channel capacities, any number of times, while the track is
\* muted and unmuted, the subscriber changes its maximum layers and the publisher
\* its layers
\* ------------------------------------------------------------------------
SpatialLayers == 0..DefaultMaxSpatialLayer
TemporalLayers == 0..DefaultMaxTemporalLayer

BitratesOf(rows) == [sp \in SpatialLayers |-> [t \in TemporalLayers |-> rows[sp + 1][t + 1]]]

\* nothing measured; the table of TestForwarderAllocate; a table whose cells do not
\* grow with the layers; only the top layer measured; only the base cell measured
BitrateTables ==
    {BitratesOf(<< <<0, 0, 0, 0>>, <<0, 0, 0, 0>>, <<0, 0, 0, 0>> >>),
     BitratesOf(<< <<2, 3, 0, 0>>, <<4, 0, 0, 5>>, <<0, 7, 0, 0>> >>),
     BitratesOf(<< <<6, 0, 0, 0>>, <<0, 3, 0, 8>>, <<5, 0, 0, 0>> >>),
     BitratesOf(<< <<0, 0, 0, 0>>, <<0, 0, 0, 0>>, <<0, 7, 0, 0>> >>),
     BitratesOf(<< <<2, 0, 0, 0>>, <<0, 0, 0, 0>>, <<0, 0, 0, 0>> >>)}

ChannelCapacities == {1, 3, 6, 7, ChannelCapacityInfinity - 1, ChannelCapacityInfinity}

AvailableLayerSets == {{}, {0}, {1, 2}}

\* the maximum temporal layers the subscriber asks for
MaxTemporalLayers == {1, DefaultMaxTemporalLayer}

\* calls.allocate is the parity of the number of calls of Allocate: two calls in a
\* row with the same arguments and the same outcome are two steps
AllocAllocate ==
    /\ \E capacity \in ChannelCapacities, brs \in BitrateTables :
         LET res == Allocate(fwd, capacity, brs)
         IN  /\ fwd' = res.f
             /\ last' = [op |-> "Allocate", availableChannelCapacity |-> capacity,
                         brs |-> brs, result |-> res.result]
    /\ calls' = [calls EXCEPT !.allocate = 1 - @]
    /\ UNCHANGED <<r, now, fedPayload, fedPadding, rd, reads, issued, feed>>
    /\ UNCHANGED <<twccVars, tracks, roomVars, chainVars, pcVars>>

AllocMute ==
    /\ \E muted \in BOOLEAN :
         LET res == Mute(fwd, muted)
         IN  /\ fwd' = res.f
             /\ last' = [op |-> "Mute", muted |-> muted, changed |-> res.changed]
    /\ UNCHANGED <<r, now, fedPayload, fedPadding, rd, reads, issued, feed, calls>>
    /\ UNCHANGED <<twccVars, tracks, roomVars, chainVars, pcVars>>

AllocSetMaxSpatialLayer ==
    /\ \E spatialLayer \in SpatialLayers :
         LET res == SetMaxSpatialLayer(fwd, spatialLayer)
         IN  /\ fwd' = res.f
             /\ last' = [op |-> "SetMaxSpatialLayer", spatialLayer |-> spatialLayer,
                         changed |-> res.changed, layers |-> res.layers]
    /\ UNCHANGED <<r, now, fedPayload, fedPadding, rd, reads, issued, feed, calls>>
    /\ UNCHANGED <<twccVars, tracks, roomVars, chainVars, pcVars>>

AllocSetMaxTemporalLayer ==
    /\ \E temporalLayer \in MaxTemporalLayers :
         LET res == SetMaxTemporalLayer(fwd, temporalLayer)
         IN  /\ fwd' = res.f
             /\ last' = [op |-> "SetMaxTemporalLayer", temporalLayer |-> temporalLayer,
                         changed |-> res.changed, layers |-> res.layers]
    /\ UNCHANGED <<r, now, fedPayload, fedPadding, rd, reads, issued, feed, calls>>
    /\ UNCHANGED <<twccVars, tracks, roomVars, chainVars, pcVars>>

AllocUptrackLayersChange ==
    /\ \E availableLayers \in AvailableLayerSets :
         /\ fwd' = UptrackLayersChange(fwd, availableLayers)
         /\ last' = [op |-> "UptrackLayersChange", availableLayers |-> availableLayers]
    /\ UNCHANGED <<r, now, fedPayload, fedPadding, rd, reads, issued, feed, calls>>
    /\ UNCHANGED <<twccVars, tracks, roomVars, chainVars, pcVars>>

InitAlloc ==
    /\ r = NewRTPStats
    /\ now = 1
    /\ fedPayload = {}
    /\ fedPadding = {}
    /\ last = NoCall
    /\ rd = NoRead
    /\ reads = << >>
    /\ issued = << >>
    /\ calls = NoCalls
    /\ fwd = NewForwarder("video")
    /\ feed = InitFeed
    /\ tracks = << >>
    /\ room = NewRoom
    /\ procs = NoProcs
    /\ fc = NewFrameChain
    /\ decisions = NewSelectorDecisionCache
    /\ pct = NewPCTransport
    /\ wire = << >>
    /\ twcc = NewTWCCFeedback
    /\ report = NoReport

NextAlloc ==
    \/ AllocAllocate
    \/ AllocMute
    \/ AllocSetMaxSpatialLayer
    \/ AllocSetMaxTemporalLayer
    \/ AllocUptrackLayersChange

SpecAlloc == InitAlloc /\ [][NextAlloc]_vars

\* the step is a call of Allocate
AllocateCalled == last'.op = "Allocate" /\ calls'.allocate # calls.allocate

\* the measured cells of the table of the step within the maximum layers
permittedCells ==
    {cell \in SpatialLayers \X TemporalLayers :
        /\ cell[1] <= fwd.maxLayers.spatial
        /\ cell[2] <= fwd.maxLayers.temporal
        /\ last'.brs[cell[1]][cell[2]] # 0}

\* those that fit the capacity of the step
fittingCells ==
    {cell \in permittedCells :
        last'.brs[cell[1]][cell[2]] <= last'.availableChannelCapacity}

\* the highest cell of the set, a higher spatial layer before a higher temporal one
highestCell(cells) ==
    CHOOSE cell \in cells :
        \A other \in cells :
            \/ other[1] < cell[1]
            \/ other[1] = cell[1] /\ other[2] <= cell[2]

\* C19: on an unmuted video Forwarder, with a measured cell within the maximum
\* layers, Allocate(c, b) targets the highest measured cell, spatial layer first,
\* whose bitrate fits c and requests its bitrate, so bandwidthRequested <= c; the
\* state is Optimal iff that cell is the highest measured cell within the maximum
\* layers, else Deficient; when no cell fits the target is invalid, the state
\* Deficient and bandwidthRequested 0.
AllocateHighestFittingCell ==
    [][(AllocateCalled /\ ~fwd.muted /\ permittedCells # {}) =>
          LET result == last'.result
          IN  IF fittingCells = {}
              THEN /\ fwd'.targetLayers = InvalidLayers
                   /\ result.state = "Deficient"
                   /\ result.bandwidthRequested = 0
              ELSE LET cell == highestCell(fittingCells)
                   IN  /\ fwd'.targetLayers = [spatial |-> cell[1], temporal |-> cell[2]]
                       /\ result.bandwidthRequested = last'.brs[cell[1]][cell[2]]
                       /\ result.bandwidthRequested <= last'.availableChannelCapacity
                       /\ result.state \in {"Optimal", "Deficient"}
                       /\ result.state = "Optimal" <=> cell = highestCell(permittedCells)]_vars

\* C19 witness: with the maximum spatial layer lowered to 1, Allocate(6, b) on the
\* table of the test has gone from the target (1, 3) to the state Optimal
AllocatedOptimalBelowTop ==
    /\ last.op = "Allocate"
    /\ fwd.maxLayers.spatial = 1
    /\ last.brs[2][1] = 7
    /\ last.availableChannelCapacity = 6
    /\ last.result.state = "Optimal"
    /\ fwd.targetLayers = [spatial |-> 1, temporal |-> 3]
    /\ last.result.bandwidthRequested = 5

\* C20: Allocate on a muted Forwarder returns Muted and bandwidthRequested 0,
\* whatever the capacity and the table; else with no measured cell and no
\* available layers FeedDry; else with no measured cell and infinite capacity
\* AwaitingMeasurement, the target (lowest available spatial layer, maximum
\* temporal layer) and the change Resuming; else with no measured cell Deficient
\* and the target invalid.  After every Allocate lastAllocationState and
\* lastAllocationRequestBps are the state and the bandwidthRequested returned.
AllocatePrecedence ==
    [][AllocateCalled =>
          LET result == last'.result
              infinite == last'.availableChannelCapacity = ChannelCapacityInfinity
          IN  /\ fwd'.lastAllocationState = result.state
              /\ fwd'.lastAllocationRequestBps = result.bandwidthRequested
              /\ fwd.muted =>
                    /\ result.state = "Muted"
                    /\ result.bandwidthRequested = 0
              /\ (~fwd.muted /\ permittedCells = {}) =>
                    /\ result.bandwidthRequested = 0
                    /\ fwd.availableLayers = {} => result.state = "FeedDry"
                    /\ (fwd.availableLayers # {} /\ infinite) =>
                          /\ result.state = "AwaitingMeasurement"
                          /\ result.change = "Resuming"
                          /\ fwd'.targetLayers.spatial \in fwd.availableLayers
                          /\ \A l \in fwd.availableLayers :
                                fwd'.targetLayers.spatial <= l
                          /\ fwd'.targetLayers.temporal = fwd.maxLayers.temporal
                    /\ (fwd.availableLayers # {} /\ ~infinite) =>
                          /\ result.state = "Deficient"
                          /\ fwd'.targetLayers = InvalidLayers]_vars

\* C20 witness: a muted forwarder whose publisher sends layers was asked for an
\* allocation with infinite capacity and a measured table, after an allocation
\* that requested bandwidth
AllocatedWhileMuted ==
    /\ last.op = "Allocate"
    /\ fwd.muted
    /\ fwd.availableLayers # {}
    /\ last.availableChannelCapacity = ChannelCapacityInfinity
    /\ last.brs[0][0] # 0
    /\ last.result.state = "Muted"
    /\ last.result.bandwidthDelta < 0

\* ------------------------------------------------------------------------
\* SpecProbe: the allocator allocates, finalizes and probes one step up on a
\* Forwarder, any number of times, while the stream reaches the target layers, the
\* track is muted and unmuted and the publisher changes its layers; the maximum
\* layers are the default ones
\* ------------------------------------------------------------------------
\* nothing measured; the table of TestForwarderAllocateNextHigher; the sparse table
\* of TestForwarderFinalizeAllocate; a table with an unmeasured spatial layer in the
\* middle
ProbeBitrateTables ==
    {BitratesOf(<< <<0, 0, 0, 0>>, <<0, 0, 0, 0>>, <<0, 0, 0, 0>> >>),
     BitratesOf(<< <<2, 3, 0, 0>>, <<4, 0, 0, 5>>, <<0, 7, 0, 0>> >>),
     BitratesOf(<< <<1, 2, 0, 0>>, <<5, 0, 0, 6>>, <<0, 0, 0, 0>> >>),
     BitratesOf(<< <<0, 2, 0, 0>>, <<0, 0, 0, 0>>, <<0, 0, 4, 6>> >>)}

ProbeChannelCapacities == {1, 3, 6, ChannelCapacityInfinity}

ProbeAvailableLayerSets == {{}, {0, 1}}

\* calls.allocate is the parity of the number of calls of Allocate,
\* AllocateNextHigher and FinalizeAllocate: two calls in a row with the same
\* arguments and the same outcome are two steps
ProbeAllocate ==
    /\ \E capacity \in ProbeChannelCapacities, brs \in ProbeBitrateTables :
         LET res == Allocate(fwd, capacity, brs)
         IN  /\ fwd' = res.f
             /\ last' = [op |-> "Allocate", availableChannelCapacity |-> capacity,
                         brs |-> brs, result |-> res.result]
    /\ calls' = [calls EXCEPT !.allocate = 1 - @]
    /\ UNCHANGED <<r, now, fedPayload, fedPadding, rd, reads, issued, feed>>
    /\ UNCHANGED <<twccVars, tracks, roomVars, chainVars, pcVars>>

ProbeAllocateNextHigher ==
    /\ \E brs \in ProbeBitrateTables :
         LET res == AllocateNextHigher(fwd, brs)
         IN  /\ fwd' = res.f
             /\ last' = [op |-> "AllocateNextHigher", brs |-> brs,
                         result |-> res.result]
    /\ calls' = [calls EXCEPT !.allocate = 1 - @]
    /\ UNCHANGED <<r, now, fedPayload, fedPadding, rd, reads, issued, feed>>
    /\ UNCHANGED <<twccVars, tracks, roomVars, chainVars, pcVars>>

ProbeFinalizeAllocate ==
    /\ \E brs \in ProbeBitrateTables :
         /\ fwd' = FinalizeAllocate(fwd, brs)
         /\ last' = [op |-> "FinalizeAllocate", brs |-> brs]
    /\ calls' = [calls EXCEPT !.allocate = 1 - @]
    /\ UNCHANGED <<r, now, fedPayload, fedPadding, rd, reads, issued, feed>>
    /\ UNCHANGED <<twccVars, tracks, roomVars, chainVars, pcVars>>

\* the stream reaches the target: the forwarder has locked onto the target's
\* spatial layer and forwards up to its temporal layer
ProbeReachTarget ==
    /\ fwd.kind = "video"
    /\ ~fwd.muted
    /\ fwd.currentLayers # fwd.targetLayers
    /\ fwd' = [fwd EXCEPT !.currentLayers = fwd.targetLayers]
    /\ last' = [op |-> "ReachTarget"]
    /\ UNCHANGED <<r, now, fedPayload, fedPadding, rd, reads, issued, feed, calls>>
    /\ UNCHANGED <<twccVars, tracks, roomVars, chainVars, pcVars>>

ProbeMute ==
    /\ \E muted \in BOOLEAN :
         LET res == Mute(fwd, muted)
         IN  /\ fwd' = res.f
             /\ last' = [op |-> "Mute", muted |-> muted, changed |-> res.changed]
    /\ UNCHANGED <<r, now, fedPayload, fedPadding, rd, reads, issued, feed, calls>>
    /\ UNCHANGED <<twccVars, tracks, roomVars, chainVars, pcVars>>

ProbeUptrackLayersChange ==
    /\ \E availableLayers \in ProbeAvailableLayerSets :
         /\ fwd' = UptrackLayersChange(fwd, availableLayers)
         /\ last' = [op |-> "UptrackLayersChange", availableLayers |-> availableLayers]
    /\ UNCHANGED <<r, now, fedPayload, fedPadding, rd, reads, issued, feed, calls>>
    /\ UNCHANGED <<twccVars, tracks, roomVars, chainVars, pcVars>>

InitProbe ==
    /\ r = NewRTPStats
    /\ now = 1
    /\ fedPayload = {}
    /\ fedPadding = {}
    /\ last = NoCall
    /\ rd = NoRead
    /\ reads = << >>
    /\ issued = << >>
    /\ calls = NoCalls
    /\ \E kind \in {"audio", "video"} : fwd = NewForwarder(kind)
    /\ feed = InitFeed
    /\ tracks = << >>
    /\ room = NewRoom
    /\ procs = NoProcs
    /\ fc = NewFrameChain
    /\ decisions = NewSelectorDecisionCache
    /\ pct = NewPCTransport
    /\ wire = << >>
    /\ twcc = NewTWCCFeedback
    /\ report = NoReport

NextProbe ==
    \/ ProbeAllocate
    \/ ProbeAllocateNextHigher
    \/ ProbeFinalizeAllocate
    \/ ProbeReachTarget
    \/ ProbeMute
    \/ ProbeUptrackLayersChange

SpecProbe == InitProbe /\ [][NextProbe]_vars

\* the step is a call of AllocateNextHigher
AllocateNextHigherCalled ==
    last'.op = "AllocateNextHigher" /\ calls'.allocate # calls.allocate

\* the measured cells of the table of the step within the maximum layers, as
\* <<spatial, temporal>>
measuredCells ==
    {cell \in SpatialLayers \X TemporalLayers :
        /\ cell[1] <= fwd.maxLayers.spatial
        /\ cell[2] <= fwd.maxLayers.temporal
        /\ last'.brs[cell[1]][cell[2]] # 0}

\* cell a is below cell b, a lower spatial layer before a lower temporal one
cellBelow(a, b) == a[1] < b[1] \/ (a[1] = b[1] /\ a[2] < b[2])

\* the measured cells one can step to from the current layers: a higher temporal
\* layer of the current spatial layer (of the lowest one when the stream is off),
\* or a higher spatial layer
cellsAbove ==
    {cell \in measuredCells :
        \/ /\ cell[1] = (IF fwd.currentLayers.spatial < 0 THEN 0
                         ELSE fwd.currentLayers.spatial)
           /\ cell[2] > fwd.currentLayers.temporal
        \/ cell[1] > fwd.currentLayers.spatial}

\* C21: AllocateNextHigher returns an empty result and leaves the target layers,
\* lastAllocationState and lastAllocationRequestBps alone unless the track is
\* video, the last allocation state is Deficient and the current layers are the
\* target layers; when it steps, the target moves to the lowest measured cell above
\* the current layers (the next measured temporal layer of the current spatial
\* layer, else the lowest measured temporal layer of the next spatial layer that
\* has one), the state returned and stored is Optimal iff that cell is the highest
\* measured cell, and with no measured cell above nothing changes.
NextHigherStepsOneCellUp ==
    [][AllocateNextHigherCalled =>
          LET result == last'.result
              steps  == /\ fwd.kind = "video"
                        /\ fwd.lastAllocationState = "Deficient"
                        /\ fwd.currentLayers = fwd.targetLayers
                        /\ cellsAbove # {}
          IN  IF ~steps
              THEN /\ result = NoAllocation
                   /\ fwd' = fwd
              ELSE LET cell == CHOOSE c \in cellsAbove :
                                  \A o \in cellsAbove : o = c \/ cellBelow(c, o)
                   IN  /\ fwd'.targetLayers = [spatial |-> cell[1], temporal |-> cell[2]]
                       /\ \A o \in measuredCells : ~cellBelow(cell, o) \/ o \in cellsAbove
                       /\ result.bandwidthRequested = last'.brs[cell[1]][cell[2]]
                       /\ result.state \in {"Optimal", "Deficient"}
                       /\ result.state = "Optimal" <=>
                             \A o \in measuredCells : ~cellBelow(cell, o)
                       /\ fwd'.lastAllocationState = result.state
                       /\ fwd'.lastAllocationRequestBps = result.bandwidthRequested]_vars

\* C21 witness: over the table of the test a Deficient forwarder that has reached
\* (1, 3) was stepped up to (2, 1), the highest measured cell, and is Optimal
SteppedUpToOptimal ==
    /\ last.op = "AllocateNextHigher"
    /\ last.brs[2][1] = 7
    /\ fwd.currentLayers = [spatial |-> 1, temporal |-> 3]
    /\ fwd.targetLayers = [spatial |-> 2, temporal |-> 1]
    /\ last.result.state = "Optimal"
    /\ last.result.bandwidthDelta = 2
    /\ fwd.lastAllocationState = "Optimal"

\* the step is a call of FinalizeAllocate
FinalizeAllocateCalled ==
    last'.op = "FinalizeAllocate" /\ calls'.allocate # calls.allocate

\* C27: FinalizeAllocate(bitrates) changes the forwarder only when the last
\* allocation state is AwaitingMeasurement; then it does what Allocate with infinite
\* capacity does: on an unmuted forwarder the state becomes Optimal with the target
\* at the highest measured cell, FeedDry with nothing measured and no available
\* layers, and stays AwaitingMeasurement with layers available but unmeasured (a
\* muted forwarder becomes Muted); in every other state nothing changes.
FinalizeOnlyWhenAwaiting ==
    [][FinalizeAllocateCalled =>
          IF fwd.lastAllocationState # "AwaitingMeasurement"
          THEN fwd' = fwd
          ELSE /\ fwd.muted => fwd'.lastAllocationState = "Muted"
               /\ (~fwd.muted /\ measuredCells # {}) =>
                     LET cell == CHOOSE c \in measuredCells :
                                    \A o \in measuredCells : ~cellBelow(c, o)
                     IN  /\ fwd'.lastAllocationState = "Optimal"
                         /\ fwd'.targetLayers = [spatial |-> cell[1], temporal |-> cell[2]]
                         /\ fwd'.lastAllocationRequestBps = last'.brs[cell[1]][cell[2]]
               /\ (~fwd.muted /\ measuredCells = {}) =>
                     /\ fwd'.lastAllocationRequestBps = 0
                     /\ fwd'.lastAllocationState =
                           IF fwd.availableLayers = {} THEN "FeedDry"
                           ELSE "AwaitingMeasurement"]_vars

\* C27 witness: a forwarder awaiting measurement was finalized over the sparse
\* table of the test and is Optimal at (1, 3), the stream not yet there
FinalizedToOptimal ==
    /\ last.op = "FinalizeAllocate"
    /\ last.brs[1][3] = 6
    /\ fwd.lastAllocationState = "Optimal"
    /\ fwd.targetLayers = [spatial |-> 1, temporal |-> 3]
    /\ fwd.currentLayers # fwd.targetLayers
    /\ fwd.availableLayers # {}

\* ------------------------------------------------------------------------
\* SpecLong: one RTPStats whose snapshot is read after short and long intervals:
\* packets in order with gaps, receiver reports that run ahead, and the three
\* readers of a snapshot
\* ------------------------------------------------------------------------
MaxLongPackets == 4
MaxLongReceiverReports == 1
MaxLongReads == 1

\* how far ahead of the highest packet the next one is: next, or almost half the
\* sequence number space ahead
LongSteps == {1, HalfRange - 1}

\* rr.LastSequenceNumber against extStartSN: at it, a whole sequence number space
\* less one, a whole one, and more than one ahead
LongLastSNSteps ==
    {0, NumSequenceNumbers - 1, NumSequenceNumbers, NumSequenceNumbers + 1}

SnapshotReaders == {"DeltaInfo", "SnapshotRtcpReceptionReport", "DeltaInfoOverridden"}

InitLong == InitRR

LongUpdate ==
    /\ calls.update < MaxLongPackets
    /\ \E x \in (IF fedAll = {} THEN FirstSNs
                 ELSE {SetMax(fedAll) + d : d \in LongSteps}) :
         DoUpdate(x, [payloadSize |-> 2, paddingSize |-> 0], 0, FALSE)
    /\ calls' = Called("update")
    /\ UNCHANGED <<rd, reads, issued>>
    /\ UNCHANGED fwdVars
    /\ UNCHANGED <<twccVars, tracks, roomVars, chainVars, pcVars>>

LongNewSnapshotId ==
    /\ issued = << >>
    /\ LET res == NewSnapshotId(r, now)
       IN  /\ r' = res.r
           /\ issued' = Append(issued, res.id)
           /\ last' = [op |-> "NewSnapshotId", id |-> res.id]
    /\ UNCHANGED <<now, fedPayload, fedPadding, rd, reads, calls>>
    /\ UNCHANGED fwdVars
    /\ UNCHANGED <<twccVars, tracks, roomVars, chainVars, pcVars>>

LongUpdateFromReceiverReport ==
    /\ calls.receiverReport < MaxLongReceiverReports
    /\ \E d \in LongLastSNSteps :
         LET rr  == [LastSequenceNumber |-> U32(r.extStartSN + d), TotalLost |-> 1,
                     Jitter |-> 2]
             res == UpdateFromReceiverReport(r, rr, [err |-> TRUE, rtt |-> 0], now)
         IN  /\ r' = res.r
             /\ last' = [op |-> "UpdateFromReceiverReport", rr |-> rr,
                         rtt |-> res.rtt, isRttChanged |-> res.isRttChanged]
    /\ calls' = Called("receiverReport")
    /\ UNCHANGED <<now, fedPayload, fedPadding, rd, reads, issued>>
    /\ UNCHANGED fwdVars
    /\ UNCHANGED <<twccVars, tracks, roomVars, chainVars, pcVars>>

\* DeltaInfo, SnapshotRtcpReceptionReport or DeltaInfoOverridden of the snapshot
\* id, with no other call between its two halves
LongRead ==
    /\ calls.read < MaxLongReads
    /\ issued # << >>
    /\ \E call \in SnapshotReaders :
         LET override == call = "DeltaInfoOverridden"
             g == getAndResetSnapshot(r, issued[1], override, now)
             result ==
                 IF call = "DeltaInfo" THEN DeltaInfoCompute(g.r, g.then, g.now)
                 ELSE IF call = "SnapshotRtcpReceptionReport"
                 THEN ReceptionReportCompute(g.r, g.then, g.now, ProxyFracLost)
                 ELSE DeltaInfoOverriddenCompute(g.r, g.then, g.now)
         IN  IF override /\ ~r.params.IsReceiverReportDriven
             THEN /\ r' = r
                  /\ last' = [op |-> call, rotated |-> FALSE, result |-> NilResult]
             ELSE /\ r' = g.r
                  /\ last' = IF g.ok
                             THEN [op |-> call, rotated |-> TRUE, then |-> g.then,
                                   now |-> g.now, result |-> result]
                             ELSE [op |-> call, rotated |-> FALSE, result |-> NilResult]
    /\ calls' = Called("read")
    /\ UNCHANGED <<now, fedPayload, fedPadding, rd, reads, issued>>
    /\ UNCHANGED fwdVars
    /\ UNCHANGED <<twccVars, tracks, roomVars, chainVars, pcVars>>

NextLong ==
    \/ LongUpdate
    \/ LongNewSnapshotId
    \/ LongUpdateFromReceiverReport
    \/ LongRead

SpecLong == InitLong /\ [][NextLong]_vars

\* the packets expected between the watermark stored in the snapshot and the new
\* one, as the reader of the call counts them
expectedBetween(call) ==
    IF call.op = "DeltaInfoOverridden"
    THEN U32(call.now.extStartSNOverridden - call.then.extStartSNOverridden)
    ELSE U32(call.now.extStartSN - call.then.extStartSN)

\* C25: whenever more than 65536 packets are expected between the watermark stored
\* in a snapshot and the new watermark, DeltaInfo, DeltaInfoOverridden and
\* SnapshotRtcpReceptionReport return nil; with exactly 65536 expected they report.
LongIntervalVoided ==
    [][(/\ last'.op \in SnapshotReaders
        /\ calls'.read = calls.read + 1
        /\ last'.rotated) =>
            /\ expectedBetween(last') > NumSequenceNumbers => last'.result = NilResult
            /\ expectedBetween(last') = NumSequenceNumbers => ~last'.result.nil]_vars

\* C25 witness: DeltaInfo found more packets than the sequence number space holds
\* expected since the snapshot, the packets having come in order, and returned nil
LongDeltaVoided ==
    /\ last.op = "DeltaInfo"
    /\ last.rotated
    /\ expectedBetween(last) > NumSequenceNumbers
    /\ r.extStartSN <= getExtHighestSN(r)
    /\ last.result = NilResult

\* ------------------------------------------------------------------------
\* SpecSort: the Tracks of one StreamAllocator, added with their maximum
\* layers, given priorities, and sorted with TrackSorter
\* ------------------------------------------------------------------------
MaxTracks == 3

TrackSources == {"CAMERA", "SCREEN_SHARE"}
TrackMaxLayers ==
    {[Spatial |-> 0, Temporal |-> 1], [Spatial |-> 1, Temporal |-> 0],
     [Spatial |-> 1, Temporal |-> 1]}
\* SetPriority(0) asks for the default priority
TrackPriorities == {0, 2}

SortNewTrack ==
    /\ Len(tracks) < MaxTracks
    /\ \E source \in TrackSources, maxLayer \in TrackMaxLayers :
         LET t == NewTrack(Len(tracks) + 1, source, FALSE, maxLayer)
         IN  /\ tracks' = Append(tracks, t)
             /\ last' = [op |-> "NewTrack", track |-> t]
    /\ UNCHANGED <<r, now, fedPayload, fedPadding, rd, reads, issued, calls>>
    /\ UNCHANGED <<fwdVars, twccVars, roomVars, chainVars, pcVars>>

SortSetPriority ==
    /\ \E i \in DOMAIN tracks, priority \in TrackPriorities :
         LET res == SetPriority(tracks[i], priority)
         IN  /\ tracks' = [tracks EXCEPT ![i] = res.t]
             /\ last' = [op |-> "SetPriority", track |-> res.t, priority |-> priority,
                         changed |-> res.changed]
    /\ UNCHANGED <<r, now, fedPayload, fedPadding, rd, reads, issued, calls>>
    /\ UNCHANGED <<fwdVars, twccVars, roomVars, chainVars, pcVars>>

\* sort.Sort(TrackSorter(list)) on a list of the tracks
SortSort ==
    /\ last' = [op |-> "Sort", sorter |-> "TrackSorter",
                sorted |-> Sort("TrackSorter", tracks)]
    /\ UNCHANGED <<r, now, fedPayload, fedPadding, rd, reads, issued, calls>>
    /\ UNCHANGED <<fwdVars, twccVars, tracks, roomVars, chainVars, pcVars>>

NextSort ==
    \/ SortNewTrack
    \/ SortSetPriority
    \/ SortSort

SpecSort == InitStats /\ [][NextSort]_vars

TrackSet == {tracks[i] : i \in DOMAIN tracks}

defaultPriority(t) ==
    IF t.source = "SCREEN_SHARE" THEN PriorityDefaultScreenshare
    ELSE PriorityDefaultVideo

\* the last call sorted the tracks with the sorter: what it returned is the
\* tracks in some order
Sorted(sorter) ==
    /\ last.op = "Sort"
    /\ last.sorter = sorter
    /\ Len(last.sorted) = Len(tracks)
    /\ {[last.sorted[i] EXCEPT !.distance = 0] : i \in DOMAIN last.sorted} = TrackSet

\* C28: TrackSorter.Less is irreflexive, asymmetric and transitive, and so is
\* being neither less nor greater, over the tracks of every list; a list sorted
\* with it has the higher priority first, the higher maximum spatial layer first
\* among equal priorities and the higher maximum temporal layer first among equal
\* priorities and spatial layers; a track is created with the default priority of
\* its source, and SetPriority(0) gives it that priority again.
TrackSorterOrders ==
    /\ \A a, b, c \in TrackSet :
         /\ ~TrackSorterLess(a, a)
         /\ TrackSorterLess(a, b) => ~TrackSorterLess(b, a)
         /\ (TrackSorterLess(a, b) /\ TrackSorterLess(b, c)) => TrackSorterLess(a, c)
         /\ (/\ ~TrackSorterLess(a, b) /\ ~TrackSorterLess(b, a)
             /\ ~TrackSorterLess(b, c) /\ ~TrackSorterLess(c, b))
               => (~TrackSorterLess(a, c) /\ ~TrackSorterLess(c, a))
    /\ last.op = "Sort" /\ last.sorter = "TrackSorter" =>
         /\ Sorted("TrackSorter")
         /\ \A i, j \in DOMAIN last.sorted :
              i < j =>
                LET a == last.sorted[i]
                    b == last.sorted[j]
                IN  /\ a.priority >= b.priority
                    /\ a.priority = b.priority =>
                          a.maxLayer.Spatial >= b.maxLayer.Spatial
                    /\ (/\ a.priority = b.priority
                        /\ a.maxLayer.Spatial = b.maxLayer.Spatial) =>
                          a.maxLayer.Temporal >= b.maxLayer.Temporal
    /\ last.op = "NewTrack" => last.track.priority = defaultPriority(last.track)
    /\ last.op = "SetPriority" =>
         last.track.priority =
           IF last.priority = 0 THEN defaultPriority(last.track) ELSE last.priority
    /\ \A t \in TrackSet : t.priority # 0

\* C28 witness: three tracks were sorted into another order: a screen share with
\* its default priority first, then two tracks of one priority and one maximum
\* spatial layer, the one with the higher maximum temporal layer first
SortedByPriorityThenLayers ==
    /\ Sorted("TrackSorter")
    /\ Len(tracks) = MaxTracks
    /\ last.sorted[1].id > last.sorted[2].id
    /\ last.sorted[1].source = "SCREEN_SHARE"
    /\ last.sorted[1].priority = PriorityDefaultScreenshare
    /\ last.sorted[2].priority = last.sorted[3].priority
    /\ last.sorted[2].maxLayer.Spatial = last.sorted[3].maxLayer.Spatial
    /\ last.sorted[2].maxLayer.Temporal > last.sorted[3].maxLayer.Temporal
    /\ last.sorted[2].id > last.sorted[3].id

\* ------------------------------------------------------------------------
\* SpecDistance: the Tracks of one StreamAllocator, given priorities, and
\* sorted with MaxDistanceSorter and MinDistanceSorter while their DownTracks
\* are at any distance from their desired layers
\* ------------------------------------------------------------------------
MaxDistanceTracks == 3

TrackDistances == {0, 1}
DistanceSorters == {"MaxDistanceSorter", "MinDistanceSorter"}

DistanceNewTrack ==
    /\ Len(tracks) < MaxDistanceTracks
    /\ \E source \in TrackSources :
         LET t == NewTrack(Len(tracks) + 1, source, FALSE, ZeroVideoLayer)
         IN  /\ tracks' = Append(tracks, t)
             /\ last' = [op |-> "NewTrack", track |-> t]
    /\ UNCHANGED <<r, now, fedPayload, fedPadding, rd, reads, issued, calls>>
    /\ UNCHANGED <<fwdVars, twccVars, roomVars, chainVars, pcVars>>

DistanceSetPriority ==
    /\ \E i \in DOMAIN tracks, priority \in TrackPriorities :
         LET res == SetPriority(tracks[i], priority)
         IN  /\ tracks' = [tracks EXCEPT ![i] = res.t]
             /\ last' = [op |-> "SetPriority", track |-> res.t, priority |-> priority,
                         changed |-> res.changed]
    /\ UNCHANGED <<r, now, fedPayload, fedPadding, rd, reads, issued, calls>>
    /\ UNCHANGED <<fwdVars, twccVars, roomVars, chainVars, pcVars>>

\* sort.Sort(sorter(list)) on a list of the tracks, each DownTrack answering
\* DistanceToDesired with the distance it is at
DistanceSort ==
    /\ \E sorter \in DistanceSorters, distances \in [DOMAIN tracks -> TrackDistances] :
         last' = [op |-> "Sort", sorter |-> sorter,
                  sorted |-> Sort(sorter, [i \in DOMAIN tracks |->
                                [tracks[i] EXCEPT !.distance = distances[i]]])]
    /\ UNCHANGED <<r, now, fedPayload, fedPadding, rd, reads, issued, calls>>
    /\ UNCHANGED <<fwdVars, twccVars, tracks, roomVars, chainVars, pcVars>>

NextDistance ==
    \/ DistanceNewTrack
    \/ DistanceSetPriority
    \/ DistanceSort

SpecDistance == InitStats /\ [][NextDistance]_vars

\* C29: a list sorted with MaxDistanceSorter has the higher priority first and,
\* among equal priorities, the track further from its desired layer first; a list
\* sorted with MinDistanceSorter has the lower priority first and, among equal
\* priorities, the track closer to its desired layer first.
DistanceSortersOrder ==
    /\ last.op = "Sort" /\ last.sorter = "MaxDistanceSorter" =>
         /\ Sorted("MaxDistanceSorter")
         /\ \A i, j \in DOMAIN last.sorted :
              i < j =>
                /\ last.sorted[i].priority >= last.sorted[j].priority
                /\ last.sorted[i].priority = last.sorted[j].priority =>
                      last.sorted[i].distance >= last.sorted[j].distance
    /\ last.op = "Sort" /\ last.sorter = "MinDistanceSorter" =>
         /\ Sorted("MinDistanceSorter")
         /\ \A i, j \in DOMAIN last.sorted :
              i < j =>
                /\ last.sorted[i].priority <= last.sorted[j].priority
                /\ last.sorted[i].priority = last.sorted[j].priority =>
                      last.sorted[i].distance <= last.sorted[j].distance

\* C29 witness: MinDistanceSorter put a track of lower priority that is far from
\* its desired layer before two tracks of higher priority, the closer one first,
\* and that is not the order the tracks were in
SortedByDistance ==
    /\ Sorted("MinDistanceSorter")
    /\ Len(tracks) = MaxDistanceTracks
    /\ last.sorted[1].id > last.sorted[2].id
    /\ last.sorted[1].priority < last.sorted[2].priority
    /\ last.sorted[1].distance > last.sorted[2].distance
    /\ last.sorted[2].priority = last.sorted[3].priority
    /\ last.sorted[2].distance < last.sorted[3].distance
    /\ last.sorted[2].id > last.sorted[3].id

\* ------------------------------------------------------------------------
\* SpecNack: the NACKs of one Track, accumulated by UpdateNack within a
\* window of less than half the sequence number space and read by
\* GetAndResetNackStats, the map iterated in any order
\* ------------------------------------------------------------------------
MaxNacked == 4

\* where the windows begin: one window holds the wrap, the other does not
NackWindowStarts == {2, NumSequenceNumbers - 4}
NackWindows == {{U16(start + k) : k \in 0..(HalfRange - 1)} : start \in NackWindowStarts}
NackAttempts == {1, 2}
\* the NACKs of one call: one or two sequence numbers of the windows, at the
\* same attempt
NackInfos ==
    UNION {[1..n -> [SequenceNumber : UNION NackWindows, Attempts : {attempts}]]
             : n \in 1..2, attempts \in NackAttempts}

\* the orders a range over a map with these keys can visit them in
IterationOrders(keys) ==
    {order \in [1..Cardinality(keys) -> keys] :
       \A i, j \in 1..Cardinality(keys) : order[i] = order[j] => i = j}

InitNack ==
    /\ r = NewRTPStats
    /\ now = 1
    /\ fedPayload = {}
    /\ fedPadding = {}
    /\ last = NoCall
    /\ rd = NoRead
    /\ reads = << >>
    /\ issued = << >>
    /\ calls = NoCalls
    /\ fwd = NewForwarder("audio")
    /\ feed = InitFeed
    /\ twcc = NewTWCCFeedback
    /\ report = NoReport
    /\ tracks = <<NewTrack(1, "CAMERA", FALSE, ZeroVideoLayer)>>
    /\ room = NewRoom
    /\ procs = NoProcs
    /\ fc = NewFrameChain
    /\ decisions = NewSelectorDecisionCache
    /\ pct = NewPCTransport
    /\ wire = << >>

NackUpdateNack ==
    /\ \E nackInfos \in NackInfos :
         LET t == TrackUpdateNack(tracks[1], nackInfos)
         IN  /\ Cardinality(DOMAIN t.nackInfos) <= MaxNacked
             /\ \E window \in NackWindows : DOMAIN t.nackInfos \subseteq window
             /\ tracks' = <<t>>
             /\ last' = [op |-> "UpdateNack"]
    /\ UNCHANGED <<r, now, fedPayload, fedPadding, rd, reads, issued, calls>>
    /\ UNCHANGED <<fwdVars, twccVars, roomVars, chainVars, pcVars>>

NackGetAndResetNackStats ==
    /\ \E order \in IterationOrders(DOMAIN tracks[1].nackInfos) :
         LET res == GetAndResetNackStats(tracks[1], order)
         IN  /\ tracks' = <<res.t>>
             /\ last' = [op |-> "GetAndResetNackStats",
                         nacked |-> DOMAIN tracks[1].nackInfos, stats |-> res.stats]
    /\ UNCHANGED <<r, now, fedPayload, fedPadding, rd, reads, issued, calls>>
    /\ UNCHANGED <<fwdVars, twccVars, roomVars, chainVars, pcVars>>

NextNack ==
    \/ NackUpdateNack
    \/ NackGetAndResetNackStats

SpecNack == InitNack /\ [][NextNack]_vars

\* the maximal bursts of two or more contiguous sequence numbers of a set: the
\* numbers of the set with no predecessor and with a successor in it
burstStarts(sns) == {sn \in sns : U16(sn + NumSequenceNumbers - 1) \notin sns /\ U16(sn + 1) \in sns}

\* C30 as stated: for every set of NACKed sequence numbers within a window of
\* less than half the sequence number space, GetAndResetNackStats returns as
\* numRuns the number of maximal bursts of two or more contiguous sequence
\* numbers, whatever the order the map is iterated in, and leaves the set empty
NackRunsAreMaximalBursts ==
    last.op = "GetAndResetNackStats" =>
        /\ last.stats.numRuns = Cardinality(burstStarts(last.nacked))
        /\ last.stats.numNacked = Cardinality(last.nacked)
        /\ DOMAIN tracks[1].nackInfos = {}

\* ------------------------------------------------------------------------
\* SpecUpdates: the participant updates of two identities pushed to one Room
\* in any order, from sessions that join at different or equal times, and
\* the ticks of subscriberBroadcastWorker
\* ------------------------------------------------------------------------
Identities == {"alice", "bob"}
Sids == {"PA_1", "PA_2"}
Versions == {1, 2}
JoinTimes == {1, 2}

ParticipantInfos ==
    [Identity : Identities, Sid : Sids, Version : Versions, JoinedAt : JoinTimes,
     IsPublisher : BOOLEAN, State : {"ACTIVE"}]

\* the other hold on the state: everything but the room and the last call
updatesFrame ==
    <<r, now, fedPayload, fedPadding, rd, reads, issued, calls, fwd, feed, twcc, report,
      tracks, procs, fc, decisions, pct, wire>>

UpdatesPush ==
    /\ \E pi \in ParticipantInfos, isImmediate \in BOOLEAN :
         LET res == pushAndDequeueUpdates(room, pi, isImmediate)
         IN  /\ room' = res.r
             /\ last' = [op |-> "pushAndDequeueUpdates", pi |-> pi,
                         isImmediate |-> isImmediate, updates |-> res.updates,
                         pushes |-> IF last.op = "none" THEN 1 ELSE 1 - last.pushes]
    /\ UNCHANGED updatesFrame

\* one tick of subscriberBroadcastWorker: the queue is taken and sent
UpdatesTick ==
    /\ ~room.closed
    /\ room' = [room EXCEPT !.batchedUpdates = << >>]
    /\ last' = [op |-> "tick",
                updates |-> {room.batchedUpdates[id] : id \in DOMAIN room.batchedUpdates},
                pushes |-> IF last.op = "none" THEN 0 ELSE last.pushes]
    /\ UNCHANGED updatesFrame

NextUpdates ==
    \/ UpdatesPush
    \/ UpdatesTick

SpecUpdates == InitStats /\ [][NextUpdates]_vars

\* the step was a call of pushAndDequeueUpdates
Pushed == last'.op = "pushAndDequeueUpdates" /\ last' # last

\* the queue of the other identities is as it was
othersQueuedAsBefore ==
    \A id \in Identities \ {last'.pi.Identity} :
        /\ id \in DOMAIN room'.batchedUpdates <=> id \in DOMAIN room.batchedUpdates
        /\ id \in DOMAIN room.batchedUpdates =>
              room'.batchedUpdates[id] = room.batchedUpdates[id]

\* the update is older than the one queued for its identity
olderThanQueued(pi, existing) ==
    \/ pi.Sid = existing.Sid /\ pi.Version < existing.Version
    \/ pi.Sid # existing.Sid /\ pi.JoinedAt <= existing.JoinedAt

\* C31: pushAndDequeueUpdates discards, with the queue unchanged, an update that
\* is older than the one queued for its identity (same Sid and lower Version, or
\* another Sid whose JoinedAt is not later); when a newer session (another Sid,
\* later JoinedAt) replaces a queued one it returns the queued update marked
\* DISCONNECTED and then the new one, and removes the queue entry; otherwise an
\* update of a publisher or an immediate one is returned at once and nothing is
\* left queued for its identity, and an update of a subscriber is only queued.
OlderUpdatesDiscarded ==
    [][Pushed =>
          LET pi == last'.pi
              queued == pi.Identity \in DOMAIN room.batchedUpdates
              existing == room.batchedUpdates[pi.Identity]
          IN  /\ othersQueuedAsBefore
              /\ IF queued /\ olderThanQueued(pi, existing)
                 THEN /\ last'.updates = << >>
                      /\ room' = room
                 ELSE IF queued /\ pi.Sid # existing.Sid
                 THEN /\ last'.updates = <<[existing EXCEPT !.State = "DISCONNECTED"], pi>>
                      /\ pi.Identity \notin DOMAIN room'.batchedUpdates
                 ELSE IF last'.isImmediate \/ pi.IsPublisher
                 THEN /\ last'.updates = <<pi>>
                      /\ pi.Identity \notin DOMAIN room'.batchedUpdates
                 ELSE /\ last'.updates = << >>
                      /\ pi.Identity \in DOMAIN room'.batchedUpdates
                      /\ room'.batchedUpdates[pi.Identity] = pi]_vars

\* C31 witness: while updates of both identities were queued, an older version of
\* the session queued for one of them was pushed as immediate and was discarded
StaleUpdateDiscarded ==
    /\ last.op = "pushAndDequeueUpdates"
    /\ last.updates = << >>
    /\ last.isImmediate
    /\ DOMAIN room.batchedUpdates = Identities
    /\ room.batchedUpdates[last.pi.Identity].Sid = last.pi.Sid
    /\ room.batchedUpdates[last.pi.Identity].Version > last.pi.Version

\* ------------------------------------------------------------------------
\* SpecChain: one FrameChain offered frames with any chain diff, in any order,
\* while the decisions of the frames are recorded in the cache and the chain
\* is activated and deactivated
\* ------------------------------------------------------------------------
MaxFrameNum == 2
MaxExpected == 2

ChainDiffs == {0, 1, 2}
Decisions == {"Forwarded", "Dropped"}

\* what GetDecision can answer for a frame: its recorded decision, and for a
\* frame with none that it is not decided yet or that the cache does not have it
GetDecisionAnswers(frameNum) ==
    IF frameNum \in DOMAIN decisions.recorded THEN {decisions.recorded[frameNum]}
    ELSE {"Unknown", "Missing"}

\* whether an UpdateActive(true) was called since the last BeginUpdateActive or
\* EndUpdateActive
roundActive == IF last.op \in {"none"} THEN FALSE ELSE last.round

chainFrame ==
    <<r, now, fedPayload, fedPadding, rd, reads, issued, calls, fwd, feed, twcc, report,
      tracks, room, procs, pct, wire>>

ChainOnFrame ==
    /\ \E extFrameNum \in 1..MaxFrameNum, chainDiff \in ChainDiffs :
         /\ chainDiff <= extFrameNum
         /\ \E sd \in GetDecisionAnswers(extFrameNum - chainDiff) :
              LET res == OnFrame(fc, extFrameNum, chainDiff, sd)
              IN  /\ Len(res.fc.expectFrames) <= MaxExpected
                  /\ res.expect => Len(decisions.expected) < MaxExpected
                  /\ fc' = res.fc
                  /\ decisions' = IF res.expect
                                  THEN [decisions EXCEPT !.expected =
                                          Append(@, extFrameNum - chainDiff)]
                                  ELSE decisions
                  /\ last' = [op |-> "OnFrame", extFrameNum |-> extFrameNum,
                              chainDiff |-> chainDiff, sd |-> sd, ok |-> res.ok,
                              was |-> fc, round |-> roundActive]
    /\ UNCHANGED chainFrame

\* the callbacks registered for the frame, called one after the other
RECURSIVE callExpectFrameChanged(_, _, _, _)
callExpectFrameChanged(c, expected, frameNum, decision) ==
    IF expected = << >> THEN c
    ELSE callExpectFrameChanged(
             IF Head(expected) = frameNum
             THEN OnExpectFrameChanged(c, frameNum, decision) ELSE c,
             Tail(expected), frameNum, decision)

\* the decision of a frame is recorded in the cache, which calls the callbacks
\* registered for the frame
ChainDecide ==
    /\ \E frameNum \in (0..MaxFrameNum) \ DOMAIN decisions.recorded,
          decision \in Decisions :
         /\ fc' = callExpectFrameChanged(fc, decisions.expected, frameNum, decision)
         /\ decisions' =
              [recorded |-> [f \in DOMAIN decisions.recorded \cup {frameNum} |->
                               IF f = frameNum THEN decision ELSE decisions.recorded[f]],
               expected |-> SelectSeq(decisions.expected, LAMBDA f : f # frameNum)]
         /\ last' = [op |-> "OnExpectFrameChanged", frameNum |-> frameNum,
                     decision |-> decision, was |-> fc, round |-> roundActive]
    /\ UNCHANGED chainFrame

ChainBeginUpdateActive ==
    /\ fc' = BeginUpdateActive(fc)
    /\ last' = [op |-> "BeginUpdateActive", was |-> fc, round |-> FALSE]
    /\ UNCHANGED decisions
    /\ UNCHANGED chainFrame

ChainUpdateActive ==
    /\ \E active \in BOOLEAN :
         /\ fc' = UpdateActive(fc, active)
         /\ last' = [op |-> "UpdateActive", active |-> active, was |-> fc,
                     round |-> (roundActive \/ active)]
    /\ UNCHANGED decisions
    /\ UNCHANGED chainFrame

ChainEndUpdateActive ==
    /\ fc' = EndUpdateActive(fc)
    /\ last' = [op |-> "EndUpdateActive", was |-> fc, asked |-> roundActive,
                round |-> FALSE]
    /\ UNCHANGED decisions
    /\ UNCHANGED chainFrame

NextChain ==
    \/ ChainOnFrame
    \/ ChainDecide
    \/ ChainBeginUpdateActive
    \/ ChainUpdateActive
    \/ ChainEndUpdateActive

SpecChain == InitStats /\ [][NextChain]_vars

\* C32: a FrameChain starts broken and inactive; OnFrame on an inactive chain
\* returns false and changes nothing; on an active broken chain every frame with a
\* chain diff other than 0 is rejected and changes nothing; a broken chain becomes
\* intact only in an OnFrame of an active chain with a frame of chain diff 0, which
\* is accepted and empties the expected frames; so the frame a broken chain accepts
\* first is a frame of chain diff 0.
BrokenUntilSwitchFrame ==
    /\ last.op = "none" => (fc.broken /\ ~fc.active)
    /\ last.op = "OnFrame" =>
         /\ ~last.was.active => (~last.ok /\ fc = last.was)
         /\ (last.was.active /\ last.was.broken /\ last.chainDiff # 0) =>
               (~last.ok /\ fc = last.was)
         /\ (last.was.broken /\ last.ok) => last.chainDiff = 0
         /\ (last.was.active /\ last.chainDiff = 0) =>
               (last.ok /\ ~fc.broken /\ fc.expectFrames = << >>)
    /\ (last.op # "none" /\ last.was.broken /\ ~fc.broken) =>
         /\ last.op = "OnFrame"
         /\ last.was.active
         /\ last.chainDiff = 0
         /\ last.ok

\* C32 witness: a chain that a dropped predecessor had broken became intact at
\* a frame of chain diff 0
IntactAfterBreak ==
    /\ last.op = "OnFrame"
    /\ last.ok
    /\ last.chainDiff = 0
    /\ last.was.broken
    /\ ~fc.broken
    /\ \E f \in DOMAIN decisions.recorded : decisions.recorded[f] = "Dropped"
    /\ last.extFrameNum = MaxFrameNum

\* C33: an active, intact chain offered a frame of chain diff other than 0
\* becomes broken and rejects the frame when the decision of the predecessor,
\* extFrameNum - chainDiff, is recorded and is not forwarded; it accepts the frame
\* and stays as it is when the predecessor was forwarded; it accepts the frame and
\* appends the predecessor to expectFrames when its decision is not known yet;
\* and when the decision of an expected frame arrives the frame leaves
\* expectFrames, the chain becoming broken unless the decision is forwarded.
BrokenByPredecessor ==
    /\ (/\ last.op = "OnFrame"
        /\ last.was.active /\ ~last.was.broken /\ last.chainDiff # 0) =>
          /\ last.sd \notin {"Forwarded", "Unknown"} =>
                (~last.ok /\ fc = [last.was EXCEPT !.broken = TRUE])
          /\ last.sd = "Forwarded" => (last.ok /\ fc = last.was)
          /\ last.sd = "Unknown" =>
                /\ last.ok
                /\ fc = [last.was EXCEPT !.expectFrames =
                            Append(@, last.extFrameNum - last.chainDiff)]
    /\ last.op = "OnExpectFrameChanged" =>
          LET expected == \E i \in DOMAIN last.was.expectFrames :
                              last.was.expectFrames[i] = last.frameNum
          IN  /\ \A i \in DOMAIN fc.expectFrames : fc.expectFrames[i] # last.frameNum
              /\ {fc.expectFrames[i] : i \in DOMAIN fc.expectFrames}
                    = {last.was.expectFrames[i] : i \in DOMAIN last.was.expectFrames}
                         \ {last.frameNum}
              /\ fc.broken = (last.was.broken \/ (expected /\ last.decision # "Forwarded"))
              /\ fc.active = last.was.active

\* C33 witness: the chain was intact and took a frame whose predecessor was not
\* decided; the predecessor was then dropped, which broke the chain and left
\* another frame expected
BrokenByLateDecision ==
    /\ last.op = "OnExpectFrameChanged"
    /\ last.decision = "Dropped"
    /\ ~last.was.broken
    /\ fc.broken
    /\ Len(last.was.expectFrames) = MaxExpected
    /\ Len(fc.expectFrames) = 1

\* C34: EndUpdateActive makes the chain active iff an UpdateActive(true) was
\* called since the round began; a round that takes the chain from inactive to
\* active leaves it broken, a round that leaves the activity as it was or takes
\* the chain from active to inactive leaves broken as it was.
ActiveAsUpdated ==
    last.op = "EndUpdateActive" =>
        /\ fc.active = last.asked
        /\ ~fc.updatingActive
        /\ (~last.was.active /\ fc.active) => fc.broken
        /\ (last.was.active = fc.active) => fc.broken = last.was.broken
        /\ (last.was.active /\ ~fc.active) => fc.broken = last.was.broken
        /\ fc.expectFrames = last.was.expectFrames

\* C34 witness: a chain that was intact and inactive was made active again by a
\* round and is broken
ReactivatedBroken ==
    /\ last.op = "EndUpdateActive"
    /\ ~last.was.active
    /\ ~last.was.broken
    /\ fc.active
    /\ fc.broken

\* ------------------------------------------------------------------------
\* SpecHold: callers that hold and release a Room while CloseIfEmpty runs.
\* A step is what a call does under r.lock; CloseIfEmpty is two steps, the test
\* under the lock and the Close it calls after unlocking.
\* ------------------------------------------------------------------------
holdFrame ==
    <<r, now, fedPayload, fedPadding, rd, reads, issued, calls, fwd, feed, twcc, report,
      tracks, fc, decisions, pct, wire>>

HoldHold ==
    /\ \E h \in Holders :
         /\ ~procs.held[h]
         /\ LET res == Hold(room)
            IN  /\ room' = res.r
                /\ procs' = [procs EXCEPT !.held[h] = res.ok]
                /\ last' = [op |-> "Hold", holder |-> h, ok |-> res.ok, was |-> room]
    /\ UNCHANGED holdFrame

HoldRelease ==
    /\ \E h \in Holders :
         /\ procs.held[h]
         /\ room' = Release(room)
         /\ procs' = [procs EXCEPT !.held[h] = FALSE]
         /\ last' = [op |-> "Release", holder |-> h, was |-> room]
    /\ UNCHANGED holdFrame

\* CloseIfEmpty up to its r.lock.Unlock()
HoldCloseIfEmpty ==
    /\ procs.closeIfEmpty = "idle"
    /\ \E occupied \in BOOLEAN, elapsed \in BOOLEAN :
         /\ procs' = [procs EXCEPT !.closeIfEmpty =
                        IF closeIfEmptyDecides(room, occupied, elapsed)
                        THEN "closing" ELSE "idle"]
         /\ last' = [op |-> "CloseIfEmpty", occupied |-> occupied, elapsed |-> elapsed,
                     was |-> room]
    /\ UNCHANGED room
    /\ UNCHANGED holdFrame

\* the r.Close() that ends CloseIfEmpty
HoldCloseIfEmptyCloses ==
    /\ procs.closeIfEmpty = "closing"
    /\ room' = Close(room)
    /\ procs' = [procs EXCEPT !.closeIfEmpty = "idle"]
    /\ last' = [op |-> "Close", was |-> room]
    /\ UNCHANGED holdFrame

NextHold ==
    \/ HoldHold
    \/ HoldRelease
    \/ HoldCloseIfEmpty
    \/ HoldCloseIfEmptyCloses

SpecHold == InitStats /\ [][NextHold]_vars

\* C37: a Room on which Hold() returned true and that was not released since is
\* never closed by CloseIfEmpty, and Hold() on a closed room returns false and
\* leaves holds as it is.
HeldRoomNotClosed ==
    /\ (last.op = "Close" /\ ~last.was.closed) => \A h \in Holders : ~procs.held[h]
    /\ (last.op = "Hold" /\ last.was.closed) => (~last.ok /\ room = last.was)

\* ------------------------------------------------------------------------
\* SpecStop: one RTPStats fed packets, feedback counts, round trip times and
\* receiver reports, and stopped at any moment
\* ------------------------------------------------------------------------
MaxStopPackets == 2
MaxStopFeedback == 1
MaxStopReceiverReports == 1

StopCalls ==
    {"UpdateNack", "UpdateNackProcessed", "UpdatePliAndTime", "UpdatePli", "UpdatePliTime",
     "UpdateLayerLockPliAndTime", "UpdateFir", "UpdateFirTime", "UpdateKeyFrame"}

callFeedback(s, call, count, timeNow) ==
    CASE call = "UpdateNack" -> UpdateNack(s, count)
      [] call = "UpdateNackProcessed" -> UpdateNackProcessed(s, count, count, 0)
      [] call = "UpdatePliAndTime" -> UpdatePliAndTime(s, count, timeNow)
      [] call = "UpdatePli" -> UpdatePli(s, count)
      [] call = "UpdatePliTime" -> UpdatePliTime(s, timeNow)
      [] call = "UpdateLayerLockPliAndTime" -> UpdateLayerLockPliAndTime(s, count, timeNow)
      [] call = "UpdateFir" -> UpdateFir(s, count)
      [] call = "UpdateFirTime" -> UpdateFirTime(s, timeNow)
      [] call = "UpdateKeyFrame" -> UpdateKeyFrame(s, count, timeNow)

stopFrame == <<rd, reads, fwd, feed, twcc, report, tracks, roomVars, chainVars, pcVars>>

\* the calls made on a stream that has not ended are counted
CalledIfActive(call) == IF r.endTime = 0 THEN Called(call) ELSE calls

StopUpdate ==
    /\ now <= MaxStopPackets
    /\ \E x \in (IF fedAll = {} THEN FirstSNs ELSE {SetMax(fedAll) + d : d \in {1, 2}}) :
         DoUpdate(x, [payloadSize |-> 2, paddingSize |-> 0], 0, FALSE)
    /\ UNCHANGED <<issued, calls>>
    /\ UNCHANGED stopFrame

StopNewSnapshotId ==
    /\ issued = << >>
    /\ LET res == NewSnapshotId(r, now)
       IN  /\ r' = res.r
           /\ issued' = Append(issued, res.id)
           /\ last' = [op |-> "NewSnapshotId", id |-> res.id]
    /\ UNCHANGED <<now, fedPayload, fedPadding, calls>>
    /\ UNCHANGED stopFrame

StopStop ==
    /\ r' = Stop(r, now)
    /\ last' = [op |-> "Stop"]
    /\ UNCHANGED <<now, fedPayload, fedPadding, issued, calls>>
    /\ UNCHANGED stopFrame

StopFeedback ==
    /\ r.endTime # 0 \/ calls.feedback < MaxStopFeedback
    /\ \E call \in StopCalls :
         /\ r' = callFeedback(r, call, 1, now)
         /\ last' = [op |-> call]
    /\ calls' = CalledIfActive("feedback")
    /\ UNCHANGED <<now, fedPayload, fedPadding, issued>>
    /\ UNCHANGED stopFrame

StopUpdateRtt ==
    /\ r.endTime # 0 \/ calls.feedback < MaxStopFeedback
    /\ \E rtt \in {1, 2} :
         /\ r' = UpdateRtt(r, rtt)
         /\ last' = [op |-> "UpdateRtt", rtt |-> rtt]
    /\ calls' = CalledIfActive("feedback")
    /\ UNCHANGED <<now, fedPayload, fedPadding, issued>>
    /\ UNCHANGED stopFrame

\* a report of a loss, about the packet before the first one or the one after it
StopReceptionReports ==
    {[LastSequenceNumber |-> U32(r.extStartSN + d), TotalLost |-> 1, Jitter |-> 2] :
        d \in {-1, 1}}

StopUpdateFromReceiverReport ==
    /\ r.endTime # 0 \/ calls.receiverReport < MaxStopReceiverReports
    /\ \E rr \in StopReceptionReports, getRttMs \in {[err |-> FALSE, rtt |-> 2]} :
         LET res == UpdateFromReceiverReport(r, rr, getRttMs, now)
         IN  /\ r' = res.r
             /\ last' = [op |-> "UpdateFromReceiverReport", rr |-> rr,
                         rtt |-> res.rtt, isRttChanged |-> res.isRttChanged]
    /\ calls' = CalledIfActive("receiverReport")
    /\ UNCHANGED <<now, fedPayload, fedPadding, issued>>
    /\ UNCHANGED stopFrame

NextStop ==
    \/ StopUpdate
    \/ StopNewSnapshotId
    \/ StopStop
    \/ StopFeedback
    \/ StopUpdateRtt
    \/ StopUpdateFromReceiverReport

SpecStop == InitRR /\ [][NextStop]_vars

FrozenCalls == StopCalls \cup {"Update", "UpdateRtt", "UpdateFromReceiverReport"}

\* C38: once Stop was called, every Update, UpdateNack, UpdateNackProcessed,
\* UpdatePli*, UpdateLayerLockPliAndTime, UpdateFir*, UpdateKeyFrame, UpdateRtt
\* and UpdateFromReceiverReport leaves every field of the RTPStats, the
\* snapshots among them, as it was, Update returns the empty flow state and
\* UpdateFromReceiverReport no round trip time, and IsActive() is false ever after.
FrozenAfterStop ==
    [][r.endTime # 0 =>
         /\ r'.endTime # 0
         /\ ~IsActive(r')
         /\ last'.op \in FrozenCalls => r' = r
         /\ last'.op = "Update" => last'.flowState = NoFlowState
         /\ last'.op = "UpdateFromReceiverReport" => ~last'.isRttChanged]_vars

\* C38 witness: a stream with a loss and a snapshot that was stopped is
\* offered a round trip time above the one it has
StoppedStreamOfferedRtt ==
    /\ last.op = "UpdateRtt"
    /\ r.endTime # 0
    /\ r.initialized
    /\ r.packetsLost > 0
    /\ DOMAIN r.snapshots # {}
    /\ r.rtt = 1
    /\ last.rtt = 2

\* C39: HandleRTCP never indexes outside its arrays: for every report it accepts,
\* whatever its run-length and status-vector chunks, arrivals is written only
\* below PacketStatusCount and RecvDeltas is read only below its length, so the
\* call returns.
HandleRTCPIndexesInRange ==
    (last.op = "HandleRTCP" /\ last.err = NoError) => ~last.panicked

\* ------------------------------------------------------------------------
\* SpecResync: one RTPStats fed by Update, every sequence number reachable,
\* with ResyncOnNextPacket called between the packets
\* ------------------------------------------------------------------------
MaxResyncPackets == 3
MaxResyncs == 1

ResyncUpdate ==
    /\ now <= MaxResyncPackets
    /\ \E x \in IngressSNs, shape \in PacketShapes : DoUpdate(x, shape, 0, FALSE)
    /\ UNCHANGED snapVars
    /\ UNCHANGED fwdVars
    /\ UNCHANGED <<twccVars, tracks, roomVars, chainVars, pcVars>>

ResyncResyncOnNextPacket ==
    /\ calls.update < MaxResyncs
    /\ ~r.resyncOnNextPacket
    /\ r' = ResyncOnNextPacket(r)
    /\ last' = [op |-> "ResyncOnNextPacket"]
    /\ calls' = Called("update")
    /\ UNCHANGED <<now, fedPayload, fedPadding, rd, reads, issued>>
    /\ UNCHANGED fwdVars
    /\ UNCHANGED <<twccVars, tracks, roomVars, chainVars, pcVars>>

NextResync ==
    \/ ResyncUpdate
    \/ ResyncResyncOnNextPacket

SpecResync == InitStats /\ [][NextResync]_vars

\* C40: in every state reached through Update and ResyncOnNextPacket packetsLost
\* is at most packetsExpected = extHighestSN - extStartSN + 1 and is never
\* decremented below 0, so getTotalPacketsPrimary never takes its branch
\* packetsLost > packetsExpected.
PacketsLostWithinExpected ==
    r.initialized => r.packetsLost <= packetsExpected(r)

\* ------------------------------------------------------------------------
\* SpecNegotiate: one offering PCTransport whose negotiation is asked for and
\* whose ICE is restarted while the remote peer answers the offers it is sent.
\* wire holds the offers sent and not answered yet.
\* ------------------------------------------------------------------------
MaxNegotiates == 3
MaxICERestarts == 1

negotiateFrame ==
    <<r, now, fedPayload, fedPadding, rd, reads, issued, calls, fwd, feed, twcc, report,
      tracks, room, procs, fc, decisions>>

NegotiateNegotiate ==
    /\ pct.negotiates < MaxNegotiates
    /\ \E force \in BOOLEAN :
         /\ pct' = Negotiate(pct, force)
         /\ last' = [op |-> "Negotiate", force |-> force, was |-> pct]
    /\ UNCHANGED wire
    /\ UNCHANGED negotiateFrame

NegotiateDebounceFires ==
    /\ pct.debouncePending
    /\ pct' = debouncedNegotiateFires(pct)
    /\ last' = [op |-> "debouncedNegotiate", was |-> pct]
    /\ UNCHANGED wire
    /\ UNCHANGED negotiateFrame

NegotiateICERestart ==
    /\ pct.restarts < MaxICERestarts
    /\ pct' = ICERestart(pct)
    /\ last' = [op |-> "ICERestart", was |-> pct]
    /\ UNCHANGED wire
    /\ UNCHANGED negotiateFrame

\* the peer connection reports that the gathering a restart waits for is done
NegotiateGatheringComplete ==
    /\ pct.restartAfterGathering
    /\ \A i \in DOMAIN pct.eventsQueue : pct.eventsQueue[i].signal # "ICEGatheringComplete"
    /\ pct' = postEvent(pct, [signal |-> "ICEGatheringComplete"])
    /\ last' = [op |-> "OnICEGatheringStateChange", was |-> pct]
    /\ UNCHANGED wire
    /\ UNCHANGED negotiateFrame

\* the remote peer answers the offer it was sent first
NegotiateRemoteAnswers ==
    /\ wire # << >>
    /\ pct' = HandleRemoteDescription(pct, [Type |-> "answer", offer |-> Head(wire)])
    /\ wire' = Tail(wire)
    /\ last' = [op |-> "HandleRemoteDescription", offer |-> Head(wire), was |-> pct]
    /\ UNCHANGED negotiateFrame

\* the events queue runs the event posted first
NegotiateHandleEvent ==
    /\ pct.eventsQueue # << >>
    /\ \E gathering \in BOOLEAN :
         LET e   == Head(pct.eventsQueue)
             res == handleEvent([pct EXCEPT !.eventsQueue = Tail(@)], e,
                                gathering /\ e.signal = "ICERestart")
         IN  /\ pct' = res.t
             /\ wire' = wire \o res.sent
             /\ last' = [op |-> "handleEvent", event |-> e, sent |-> res.sent,
                         was |-> pct]
    /\ UNCHANGED negotiateFrame

NextNegotiate ==
    \/ NegotiateNegotiate
    \/ NegotiateDebounceFires
    \/ NegotiateICERestart
    \/ NegotiateGatheringComplete
    \/ NegotiateRemoteAnswers
    \/ NegotiateHandleEvent

SpecNegotiate == InitStats /\ [][NextNegotiate]_vars

\* the offers created that the remote peer has not answered, or whose answer is
\* not handled yet
OutstandingOffers ==
    {wire[i] : i \in DOMAIN wire}
    \cup {pct.eventsQueue[i].data.offer :
            i \in {k \in DOMAIN pct.eventsQueue :
                     pct.eventsQueue[k].signal = "RemoteDescriptionReceived"}}

Handled(signal) == last.op = "handleEvent" /\ last.event.signal = signal

\* what a SendOffer event does in each state of the negotiation, and from which
\* states an offer is created
offerCreatedFromNone ==
    /\ (Handled("SendOffer") /\ last.was.negotiationState = "Remote") =>
          /\ last.sent = << >>
          /\ pct = [last.was EXCEPT !.eventsQueue = Tail(@), !.negotiationState = "Retry"]
    /\ (Handled("SendOffer") /\ last.was.negotiationState = "Retry") =>
          /\ last.sent = << >>
          /\ pct = [last.was EXCEPT !.eventsQueue = Tail(@)]
    /\ (Handled("SendOffer") /\ last.was.negotiationState = "None") =>
          /\ last.sent = <<pct.offersCreated>>
          /\ pct.offersCreated = last.was.offersCreated + 1
          /\ pct.negotiationState = "Remote"
    /\ (last.op # "none" /\ pct.offersCreated # last.was.offersCreated) =>
          /\ last.op = "handleEvent"
          /\ pct.offersCreated = last.was.offersCreated + 1
          /\ pct.negotiationState = "Remote"
          /\ \/ last.was.negotiationState = "None"
             \/ Handled("RemoteDescriptionReceived") /\ last.was.negotiationState = "Retry"
             \/ /\ Handled("ICERestart") \/ Handled("ICEGatheringComplete")
                /\ last.was.hasRemoteDescription

\* C35 as stated: at most one locally created offer is outstanding at any time.
AtMostOneOfferOutstanding == Cardinality(OutstandingOffers) <= 1

\* C35, amended: a SendOffer event handled in state Remote creates no offer and
\* moves the state to Retry, in state Retry it changes nothing, in state None it
\* creates an offer; an offer is created only from state None, by the answer
\* handled in state Retry, which sets None first, or by an ICE restart that
\* re-applies the last answer; and as long as ICERestart was not called at most
\* one offer is outstanding, and none while the state is None.
OneOfferOutstandingWithoutRestart ==
    /\ offerCreatedFromNone
    /\ pct.restarts = 0 =>
          /\ Cardinality(OutstandingOffers) <= 1
          /\ pct.negotiationState = "None" => OutstandingOffers = {}
          /\ pct.negotiationState # "None" => OutstandingOffers = {pct.localDescription}

\* C35 witness: with an offer outstanding and no ICE restart, a second SendOffer
\* event found the state Retry and was dropped
SendOfferDroppedInRetry ==
    /\ Handled("SendOffer")
    /\ last.was.negotiationState = "Retry"
    /\ pct.restarts = 0
    /\ OutstandingOffers = {1}
    /\ pct.offersCreated = 1

\* ------------------------------------------------------------------------
\* SpecNegotiateFair: SpecNegotiate in which the events queue goes on running the
\* events posted, the debounce timer fires, the gathering a restart waits for
\* completes and the remote peer answers every offer it is sent
\* ------------------------------------------------------------------------
SpecNegotiateFair ==
    /\ SpecNegotiate
    /\ WF_vars(NegotiateHandleEvent)
    /\ WF_vars(NegotiateDebounceFires)
    /\ WF_vars(NegotiateGatheringComplete)
    /\ WF_vars(NegotiateRemoteAnswers)

================================================================
